---- MODULE Spec2Model ----
(***************************************************************************)
(* A model of quake3-protocol-rs: the adaptive Huffman coder of            *)
(* huffman/src/lib.rs, the info-map codec of quake3/src/info.rs and the    *)
(* packet framing of protocol/src.                                         *)
(*                                                                         *)
(* A Rust panic (an index out of bounds, unwrap() on None, unreachable!()) *)
(* is recorded in the field `fault` of the value the panicking function    *)
(* was working on, and in the program counter of the call that unwound.    *)
(***************************************************************************)
EXTENDS Integers, Sequences, FiniteSets, TLC

VARIABLES
    \* Huffman::encode(&mut self, bytes): one call
    encoder,      \* self
    plain,        \* bytes, the argument
    consumed,     \* how many bytes the for loop has taken
    bits,         \* the BitVec under construction
    epc,          \* "idle", "loop", "returned" or "panicked"
    \* Huffman::decode(&mut self, bits, length, bytes): one call
    decoder,      \* self
    stream,       \* bits, the argument, as a bit slice
    length,       \* length, the argument
    cursor,       \* how many bits the iterator has yielded
    node_index,   \* the walk pointer
    decoded,      \* bytes, the caller's buffer
    written,      \* the loop counter
    dpc,          \* "idle", "loop", "returned" or "panicked"
    \* one InfoMap<K, V, L> and the calls of try_insert on it
    info,         \* the IndexMap: its entries in iteration order
    call,         \* the last call: its arguments, the map before it, its result
    order,        \* the keys whose try_insert returned Ok(None), in call order
    \* InfoMap::parse(bytes): one call
    input,        \* bytes, the argument
    parsed,       \* the result
    \* parse_packet(payload): one call
    datagram,     \* payload, the argument
    kind,         \* packet_kind
    packet,       \* the result
    \* the last call of a constructor: its name, its arguments, its result
    made,
    \* ConnectMessage::parse_packet(packet): one call
    request,      \* packet.payload(), the bytes of the connectionless payload
    connect_message, \* the result
    cpc           \* "idle", "sent", "decode", "returned" or "panicked"

huffVars == <<encoder, plain, consumed, bits, epc,
              decoder, stream, length, cursor, node_index, decoded, written, dpc>>

infoVars == <<info, call, order, input, parsed>>

packetVars == <<datagram, kind, packet, made>>

connectVars == <<request, connect_message, cpc>>

vars == <<huffVars, infoVars, packetVars, connectVars>>

\* what a step of the Huffman coder, and what a step of the info map, leaves alone
notHuffVars == <<infoVars, packetVars, connectVars>>

notInfoVars == <<huffVars, packetVars, connectVars>>

notPacketVars == <<huffVars, infoVars, connectVars>>

notConnectVars == <<infoVars, packetVars>>

(***************************************************************************)
(* Bounds of the model.                                                    *)
(***************************************************************************)
\* encode is handed at most MaxLen bytes ...
MaxLen == 4
\* ... drawn from the first NumInputSymbols letters 'a', 'b', 'c', ...
NumInputSymbols == 3
\* insert is called at most MaxInserts times on one coder
MaxInserts == 6
\* sequence headers are built from the Span + 1 lowest and the Span + 1
\* highest 31-bit numbers
Span == 31
\* decode is handed at most MaxStreamLen bytes of arbitrary data ...
MaxStreamLen == 3
\* ... and asked for at most MaxDecodeLength bytes
MaxDecodeLength == 3
\* keys and values handed to try_insert have at most MaxStrLen bytes
MaxStrLen == 1
\* the L of the InfoMap<K, V, L> that try_insert is called on
MapLimit == 9
\* parse is handed every byte string of at most MaxInput bytes ...
MaxInput == 6
\* ... and every string of at most MaxGroups \KEY\VALUE groups
MaxGroups == 3
\* the L of the InfoMap<&InfoStr, &InfoStr, L> that parse builds
ParseLimit == 9
\* parse_packet is handed payloads of up to Slack bytes less and more than
\* each of the lengths 1300, 1396 and 1400
Slack == 1
\* the constructors of fragments are handed payloads of up to Window bytes
\* less and more than each of the lengths 1300, 65536, 66836 and 131072
Window == 6

(***************************************************************************)
(* huffman/src/lib.rs: constants and nodes                                 *)
(***************************************************************************)
\* u8::MAX
U8_MAX == 255

MAX_SYMBOLS == U8_MAX + 1

MAX_NODES == MAX_SYMBOLS * 2 - 1

ROOT == 0

\* Option<NodeIndex>::None, in a parent link and in symbol_index
NoIndex == -1

\* An array of Option<T> (tree, symbol_index) is the function from the indices
\* that hold Some(x) to x: an index outside its domain holds None.
\* array[index] = Some(x)
Put(array, index, x) ==
    [i \in DOMAIN array \cup {index} |-> IF i = index THEN x ELSE array[i]]

NotYetTransmitted(parent) == [kind |-> "NotYetTransmitted", parent |-> parent]

Leaf(parent, weight, symbol) ==
    [kind |-> "Leaf", parent |-> parent, weight |-> weight, symbol |-> symbol]

Internal(parent, left, right, weight) ==
    [kind |-> "Internal", parent |-> parent, left |-> left, right |-> right,
     weight |-> weight]

\* Node::parent: NoIndex for None
parent(node) == node.parent

\* set_parent without the Internal arm
set_parent_skips_internal(node, index) ==
    IF node.kind = "Internal" THEN node ELSE [node EXCEPT !.parent = index]

\* Node::set_parent: the same for the three kinds
set_parent(node, index) == [node EXCEPT !.parent = index]

\* Node::weight
weight(node) == IF node.kind = "NotYetTransmitted" THEN 0 ELSE node.weight

\* increase_weight with the Leaf arm left out
increase_weight_internal_only(node) ==
    IF node.kind = "Internal" THEN [node EXCEPT !.weight = node.weight + 1] ELSE node

\* increase_weight with the Internal arm left out
increase_weight_leaf_only(node) ==
    IF node.kind = "Leaf" THEN [node EXCEPT !.weight = node.weight + 1] ELSE node

\* Node::increase_weight on a Leaf or an Internal (the caller rules out the NYT arm)
increase_weight(node) == [node EXCEPT !.weight = node.weight + 1]

\* Huffman::adaptive
adaptive ==
    [tree         |-> Put(<<>>, ROOT, NotYetTransmitted(NoIndex)),
     symbol_index |-> <<>>,
     nyt          |-> ROOT,
     next         |-> ROOT + 1,
     fault        |-> "none"]

\* whether self.tree[index] is inside the array and self.tree[index].unwrap() succeeds
InArena(index) == index \in 0 .. (MAX_NODES - 1)

Populated(h, index) == InArena(index) /\ index \in DOMAIN h.tree

\* self.symbol_index[symbol], NoIndex for None
symbol_index_of(h, symbol) ==
    IF symbol \in DOMAIN h.symbol_index THEN h.symbol_index[symbol] ELSE NoIndex

\* Huffman::node_ref / Huffman::node_mut, where Populated(h, index)
node_ref(h, index) == h.tree[index]

Fault(h, what) == [h EXCEPT !.fault = IF h.fault = "none" THEN what ELSE h.fault]

\* the index a helper yields when one of its unwrap() calls panics
Panicked == -2

\* block_leader without the comparison of weights: the loop runs down to the root
block_leader_ignores_weight(h, index) ==
    IF ~Populated(h, index) THEN Panicked ELSE ROOT

\* block_leader without the loop: every node is taken for the leader of its block
block_leader_stays(h, index) ==
    IF ~Populated(h, index) THEN Panicked ELSE index

\* Huffman::block_leader. The loop walks i down from `index` while the node at
\* i has the weight of the node at `index`: it stops at the highest slot below
\* `index` that has another weight (or holds no node, where node_ref panics),
\* and yields the slot above it, or the root when there is no such slot.
block_leader(h, index) ==
    IF ~Populated(h, index) THEN Panicked
    ELSE LET w == weight(node_ref(h, index))
             Same(i) == Populated(h, i) /\ weight(node_ref(h, i)) = w
             stop == CHOOSE i \in -1 .. index :
                        /\ i = -1 \/ ~Same(i)
                        /\ \A k \in (i + 1) .. index : Same(k)
         IN IF stop = -1 THEN ROOT
            ELSE IF ~Populated(h, stop) THEN Panicked
            ELSE stop + 1

\* swap_fixup without the Leaf arm: a moved leaf keeps its old symbol_index
swap_fixup_forgets_leaf(h, x) ==
    IF h.fault # "none" THEN h
    ELSE IF ~Populated(h, x) THEN Fault(h, "node_ref: unwrap on None")
    ELSE LET n == node_ref(h, x) IN
         CASE n.kind = "NotYetTransmitted" -> Fault(h, "swap_nodes: unreachable")
           [] n.kind = "Leaf" -> h
           [] n.kind = "Internal" ->
                IF ~Populated(h, n.left) THEN Fault(h, "node_mut: unwrap on None")
                ELSE LET h1 == [h EXCEPT !.tree[n.left] = set_parent(@, x)] IN
                     IF ~Populated(h1, n.right)
                     THEN Fault(h1, "node_mut: unwrap on None")
                     ELSE [h1 EXCEPT !.tree[n.right] = set_parent(@, x)]

\* Huffman::swap_nodes, one of its two match blocks: the node now at slot x
\* has its leaf registered at x, or its children pointed at x
swap_fixup(h, x) ==
    IF h.fault # "none" THEN h
    ELSE IF ~Populated(h, x) THEN Fault(h, "node_ref: unwrap on None")
    ELSE LET n == node_ref(h, x) IN
         CASE n.kind = "NotYetTransmitted" -> Fault(h, "swap_nodes: unreachable")
           [] n.kind = "Leaf" -> [h EXCEPT !.symbol_index = Put(@, n.symbol, x)]
           [] n.kind = "Internal" ->
                IF ~Populated(h, n.left) THEN Fault(h, "node_mut: unwrap on None")
                ELSE LET h1 == [h EXCEPT !.tree[n.left] = set_parent(@, x)] IN
                     IF ~Populated(h1, n.right)
                     THEN Fault(h1, "node_mut: unwrap on None")
                     ELSE [h1 EXCEPT !.tree[n.right] = set_parent(@, x)]

\* swap_nodes without lines 150-153: the parent links move with the nodes
swap_nodes_parents_follow(h, a, b) ==
    IF ~Populated(h, a) \/ ~Populated(h, b) THEN Fault(h, "node_ref: unwrap on None")
    ELSE LET a_parent == parent(node_ref(h, a))
             b_parent == parent(node_ref(h, b))
         IN IF a_parent = NoIndex \/ b_parent = NoIndex
            THEN Fault(h, "swap_nodes: parent unwrap on None")
            ELSE LET swapped == [h EXCEPT !.tree = [h.tree EXCEPT ![a] = h.tree[b],
                                                                  ![b] = h.tree[a]]]
                 IN swap_fixup(swap_fixup(swapped, a), b)

\* Huffman::swap_nodes
swap_nodes(h, a, b) ==
    IF ~Populated(h, a) \/ ~Populated(h, b) THEN Fault(h, "node_ref: unwrap on None")
    ELSE LET a_parent == parent(node_ref(h, a))
             b_parent == parent(node_ref(h, b))
         IN IF a_parent = NoIndex \/ b_parent = NoIndex
            THEN Fault(h, "swap_nodes: parent unwrap on None")
            ELSE LET swapped == [h EXCEPT !.tree = [h.tree EXCEPT ![a] = h.tree[b],
                                                                  ![b] = h.tree[a]]]
                     h1 == [swapped EXCEPT !.tree[a] = set_parent(@, a_parent)]
                     h2 == [h1 EXCEPT !.tree[b] = set_parent(@, b_parent)]
                 IN swap_fixup(swap_fixup(h2, a), b)

\* Huffman::insert, lines 224-240: the promotion loop from `node` up to the root
RECURSIVE promote(_, _)
promote(h, node) ==
    IF h.fault # "none" \/ node = NoIndex THEN h
    ELSE LET leader == block_leader(h, node) IN
         IF leader = Panicked THEN Fault(h, "node_ref: unwrap on None")
         ELSE LET swap == leader # node /\ leader # parent(node_ref(h, node))
                  h1 == IF swap THEN swap_nodes(h, node, leader) ELSE h
                  moved == IF swap THEN leader ELSE node
              IN IF h1.fault # "none" THEN h1
                 ELSE IF node_ref(h1, moved).kind = "NotYetTransmitted"
                      THEN Fault(h1, "increase_weight: unreachable")
                      ELSE LET h2 == [h1 EXCEPT !.tree[moved] = increase_weight(@)]
                           IN promote(h2, parent(node_ref(h2, moved)))

\* insert_new without line 219, self.nyt = nyt_index
insert_new_keeps_nyt(h, symbol) ==
    LET internal_index == h.nyt
        leaf_index == h.next
        nyt_index == h.next + 1
        h0 == [h EXCEPT !.next = h.next + 2]
    IN IF ~Populated(h0, h0.nyt) THEN Fault(h0, "node_ref: unwrap on None")
       ELSE LET nyt_parent == parent(node_ref(h0, h0.nyt))
                internal == Internal(nyt_parent, nyt_index, leaf_index, 1)
                leaf == Leaf(internal_index, 1, symbol)
                nyt == NotYetTransmitted(internal_index)
                h1 == [h0 EXCEPT !.symbol_index = Put(@, symbol, leaf_index),
                                 !.tree = Put(@, internal_index, internal)]
            IN IF ~InArena(leaf_index) THEN Fault(h1, "tree: index out of bounds")
               ELSE LET h2 == [h1 EXCEPT !.tree = Put(@, leaf_index, leaf)] IN
                    IF ~InArena(nyt_index) THEN Fault(h2, "tree: index out of bounds")
                    ELSE promote([h2 EXCEPT !.tree = Put(@, nyt_index, nyt)], nyt_parent)

\* Huffman::insert, lines 224-240: the passes of the promotion loop from `node`
\* up to the root, each with the node it is at, the node's parent and block
\* leader, whether it calls swap_nodes, and the slot whose weight it increases
RECURSIVE loop_passes(_, _)
loop_passes(h, node) ==
    IF h.fault # "none" \/ node = NoIndex THEN <<>>
    ELSE LET leader == block_leader(h, node) IN
         IF leader = Panicked THEN <<>>
         ELSE LET swap == leader # node /\ leader # parent(node_ref(h, node))
                  h1 == IF swap THEN swap_nodes(h, node, leader) ELSE h
                  moved == IF swap THEN leader ELSE node
                  pass == [node |-> node, leader |-> leader, swap |-> swap,
                           node_kind |-> node_ref(h, node).kind,
                           leader_kind |-> node_ref(h, leader).kind,
                           node_parent |-> parent(node_ref(h, node)),
                           moved |-> moved]
              IN IF h1.fault # "none" THEN <<pass>>
                 ELSE IF node_ref(h1, moved).kind = "NotYetTransmitted" THEN <<pass>>
                 ELSE LET h2 == [h1 EXCEPT !.tree[moved] = increase_weight(@)]
                      IN <<pass>> \o loop_passes(h2, parent(node_ref(h2, moved)))

\* new_nodes with the new NYT at `next` and the leaf at `next` + 1
new_nodes_nyt_first(h, symbol) ==
    LET internal_index == h.nyt
        nyt_index == h.next
        leaf_index == h.next + 1
        h0 == [h EXCEPT !.next = h.next + 2]
    IN IF ~Populated(h0, h0.nyt) THEN Fault(h0, "node_ref: unwrap on None")
       ELSE LET nyt_parent == parent(node_ref(h0, h0.nyt))
                internal == Internal(nyt_parent, nyt_index, leaf_index, 1)
                leaf == Leaf(internal_index, 1, symbol)
                nyt == NotYetTransmitted(internal_index)
                h1 == [h0 EXCEPT !.symbol_index = Put(@, symbol, leaf_index),
                                 !.tree = Put(@, internal_index, internal)]
            IN IF ~InArena(leaf_index) THEN Fault(h1, "tree: index out of bounds")
               ELSE LET h2 == [h1 EXCEPT !.tree = Put(@, leaf_index, leaf)] IN
                    IF ~InArena(nyt_index) THEN Fault(h2, "tree: index out of bounds")
                    ELSE [h2 EXCEPT !.tree = Put(@, nyt_index, nyt), !.nyt = nyt_index]

\* Huffman::insert, lines 181-219: the unseen symbol takes two fresh slots, the
\* leaf at `next` and the new NYT at `next` + 1, under the old NYT's slot
new_nodes(h, symbol) ==
    LET internal_index == h.nyt
        leaf_index == h.next
        nyt_index == h.next + 1
        h0 == [h EXCEPT !.next = h.next + 2]
    IN IF ~Populated(h0, h0.nyt) THEN Fault(h0, "node_ref: unwrap on None")
       ELSE LET nyt_parent == parent(node_ref(h0, h0.nyt))
                internal == Internal(nyt_parent, nyt_index, leaf_index, 1)
                leaf == Leaf(internal_index, 1, symbol)
                nyt == NotYetTransmitted(internal_index)
                h1 == [h0 EXCEPT !.symbol_index = Put(@, symbol, leaf_index),
                                 !.tree = Put(@, internal_index, internal)]
            IN IF ~InArena(leaf_index) THEN Fault(h1, "tree: index out of bounds")
               ELSE LET h2 == [h1 EXCEPT !.tree = Put(@, leaf_index, leaf)] IN
                    IF ~InArena(nyt_index) THEN Fault(h2, "tree: index out of bounds")
                    ELSE [h2 EXCEPT !.tree = Put(@, nyt_index, nyt), !.nyt = nyt_index]

\* insert_new without the promotion loop
insert_new_no_promotion(h, symbol) == new_nodes(h, symbol)

\* Huffman::insert, lines 181-222: the arm of an unseen symbol, and the
\* promotion loop from the old NYT's parent
insert_new(h, symbol) ==
    LET laid == new_nodes(h, symbol)
    IN IF laid.fault # "none" THEN laid
       ELSE promote(laid, parent(node_ref(h, h.nyt)))

\* insert with every symbol taken for an unseen one
insert_always_new(h, symbol) == insert_new(h, symbol)

\* Huffman::insert
insert(h, symbol) ==
    IF symbol_index_of(h, symbol) = NoIndex
    THEN insert_new(h, symbol)
    ELSE promote(h, symbol_index_of(h, symbol))

\* Huffman::emit: the bits pushed, first those of the path above `node`, then
\* the bit that tells `child` from its sibling; fault when an unreachable!() arm
\* or an unwrap() on None is hit
RECURSIVE emit(_, _, _)
emit(h, node, child) ==
    IF ~Populated(h, node) THEN [bits |-> <<>>, fault |-> TRUE]
    ELSE LET n == node_ref(h, node)
             up == IF parent(n) # NoIndex
                   THEN emit(h, parent(n), node)
                   ELSE [bits |-> <<>>, fault |-> FALSE]
         IN IF up.fault \/ child = NoIndex THEN up
            ELSE IF n.kind # "Internal" THEN [up EXCEPT !.fault = TRUE]
            ELSE IF child = n.left THEN [up EXCEPT !.bits = Append(@, 0)]
            ELSE IF child = n.right THEN [up EXCEPT !.bits = Append(@, 1)]
            ELSE [up EXCEPT !.fault = TRUE]

\* (symbol >> k) & 1
BitOf(symbol, k) == (symbol \div (2 ^ k)) % 2

\* Huffman::encode, lines 348-355: the eight pushes for a new symbol
raw_bits(symbol) == [i \in 1 .. 8 |-> BitOf(symbol, 8 - i)]

\* encode_bits with the eight bits of a new symbol pushed bit 0 first
encode_bits_low_bit_first(h, symbol) ==
    LET symbol_index == symbol_index_of(h, symbol) IN
    IF symbol_index # NoIndex
    THEN emit(h, symbol_index, NoIndex)
    ELSE LET e == emit(h, h.nyt, NoIndex)
         IN [e EXCEPT !.bits = @ \o [i \in 1 .. 8 |-> BitOf(symbol, i - 1)]]

\* Huffman::encode, lines 338-356: what one pass of the loop pushes for `symbol`
encode_bits(h, symbol) ==
    LET symbol_index == symbol_index_of(h, symbol) IN
    IF symbol_index # NoIndex
    THEN emit(h, symbol_index, NoIndex)
    ELSE LET e == emit(h, h.nyt, NoIndex)
         IN [e EXCEPT !.bits = @ \o raw_bits(symbol)]

\* BitVec<u8, Lsb0>::as_raw_slice: bit i of the vector is bit (i mod 8) of
\* byte (i div 8); the dead bits of the last byte are zero
as_raw_slice(bv) ==
    [j \in 1 .. ((Len(bv) + 7) \div 8) |->
        LET Bit(k) == IF 8 * (j - 1) + k + 1 <= Len(bv) THEN bv[8 * (j - 1) + k + 1] ELSE 0
        IN Bit(0) + 2 * Bit(1) + 4 * Bit(2) + 8 * Bit(3)
           + 16 * Bit(4) + 32 * Bit(5) + 64 * Bit(6) + 128 * Bit(7)]

\* &[u8] -> &BitSlice<u8, Lsb0>: every bit of every byte, least significant first
as_bitslice(bytes) ==
    [i \in 1 .. (8 * Len(bytes)) |-> BitOf(bytes[((i - 1) \div 8) + 1], (i - 1) % 8)]

(***************************************************************************)
(* quake3/src/info.rs: info strings and the info map                       *)
(***************************************************************************)
BACKSLASH == 92

NUL == 0

\* Option<T>: None is the empty sequence, Some(x) the sequence of x alone
None == <<>>

Some(x) == <<x>>

\* no call of try_insert yet, no call of parse yet
NoCall == [op |-> "none"]

NotParsed == [tag |-> "none"]

\* InfoMap::new
InfoMap_new == <<>>

\* memchr::memchr: the index, from 0, of the first needle in the haystack
memchr(needle, haystack) ==
    LET found == {i \in 1 .. Len(haystack) : haystack[i] = needle}
    IN IF found = {} THEN None
       ELSE Some((CHOOSE i \in found : \A j \in found : i <= j) - 1)

\* QStr::from_bytes
QStr_from_bytes(bytes) ==
    LET index == memchr(NUL, bytes)
    IN IF index # None THEN [ok |-> FALSE, index |-> index[1]]
       ELSE [ok |-> TRUE, bytes |-> bytes]

\* QString::from_bytes: the error holds the bytes too
QString_from_bytes(bytes) ==
    LET index == memchr(NUL, bytes)
    IN IF index # None THEN [ok |-> FALSE, index |-> index[1], bytes |-> bytes]
       ELSE [ok |-> TRUE, bytes |-> bytes]

\* InfoStr::from_bytes without the call of QStr::from_bytes
InfoStr_from_bytes_backslash_only(bytes) ==
    LET index == memchr(BACKSLASH, bytes)
    IN IF index # None THEN [ok |-> FALSE, index |-> index[1]]
       ELSE [ok |-> TRUE, bytes |-> bytes]

\* InfoStr::from_bytes, and InfoString::from_bytes where parse_infostring
\* calls it
InfoStr_from_bytes(bytes) ==
    LET index == memchr(BACKSLASH, bytes)
    IN IF index # None THEN [ok |-> FALSE, index |-> index[1]]
       ELSE QStr_from_bytes(bytes)

\* InfoString::from_bytes
InfoString_from_bytes(bytes) ==
    LET index == memchr(BACKSLASH, bytes)
    IN IF index # None THEN [ok |-> FALSE, index |-> index[1], bytes |-> bytes]
       ELSE QString_from_bytes(bytes)

\* InfoKv::encoded_size of a key or of a value
kv_encoded_size(x) == 1 + Len(x)

\* InfoMap::len
InfoMap_len(m) == Len(m)

\* InfoMap::encoded_size with every entry counted, the one under `ignore` too
RECURSIVE encoded_size_of_all(_, _)
encoded_size_of_all(m, ignore) ==
    IF m = <<>> THEN 0
    ELSE LET e == m[Len(m)]
         IN encoded_size_of_all(SubSeq(m, 1, Len(m) - 1), ignore)
            + kv_encoded_size(e.key) + kv_encoded_size(e.value)

\* InfoMap::encoded_size: the fold over the entries whose key is not `ignore`
RECURSIVE encoded_size(_, _)
encoded_size(m, ignore) ==
    IF m = <<>> THEN 0
    ELSE LET e == m[Len(m)]
             acc == encoded_size(SubSeq(m, 1, Len(m) - 1), ignore)
         IN IF e.key # ignore
            THEN acc + kv_encoded_size(e.key) + kv_encoded_size(e.value)
            ELSE acc

\* IndexMap::insert with the entry of a key that is present taken out and the
\* new entry put last
IndexMap_insert_moves_last(m, key, value) ==
    LET at == {i \in 1 .. Len(m) : m[i].key = key}
        others == [k \in 1 .. (Len(m) - Cardinality(at)) |->
                     m[CHOOSE i \in 1 .. Len(m) :
                          /\ i \notin at
                          /\ Cardinality({j \in 1 .. i : j \notin at}) = k]]
    IN [map |-> Append(others, [key |-> key, value |-> value]),
        old |-> IF at = {} THEN None ELSE Some(m[CHOOSE i \in at : TRUE].value)]

\* IndexMap::insert: the value of a key that is present is replaced where it
\* is and the old one returned; a new key is put last
IndexMap_insert(m, key, value) ==
    LET at == {i \in 1 .. Len(m) : m[i].key = key}
    IN IF at = {}
       THEN [map |-> Append(m, [key |-> key, value |-> value]), old |-> None]
       ELSE LET i == CHOOSE i \in at : TRUE
            IN [map |-> [m EXCEPT ![i].value = value], old |-> Some(m[i].value)]

Ok(x) == [tag |-> "Ok", value |-> x]

\* LimitError(key, value)
LimitError(key, value) == [tag |-> "Err", key |-> key, value |-> value]

\* try_insert with a key that is present turned down
try_insert_rejects_present(L, m, key, value) ==
    LET size == encoded_size(m, key)
        inserted == IndexMap_insert(m, key, value)
    IN IF size + kv_encoded_size(key) + kv_encoded_size(value) > L \/ inserted.old # None
       THEN [map |-> m, result |-> LimitError(key, value)]
       ELSE [map |-> inserted.map, result |-> Ok(inserted.old)]

\* try_insert without the size of the value in the check
try_insert_value_not_counted(L, m, key, value) ==
    LET size == encoded_size(m, key)
        inserted == IndexMap_insert(m, key, value)
    IN IF size + kv_encoded_size(key) > L
       THEN [map |-> m, result |-> LimitError(key, value)]
       ELSE [map |-> inserted.map, result |-> Ok(inserted.old)]

\* try_insert with the entry put in before the size is checked
try_insert_checks_late(L, m, key, value) ==
    LET size == encoded_size(m, key)
        inserted == IndexMap_insert(m, key, value)
    IN IF size + kv_encoded_size(key) + kv_encoded_size(value) > L
       THEN [map |-> inserted.map, result |-> LimitError(key, value)]
       ELSE [map |-> inserted.map, result |-> Ok(inserted.old)]

\* InfoMap::try_insert: the map after the call, and the result
try_insert(L, m, key, value) ==
    LET size == encoded_size(m, key)
        inserted == IndexMap_insert(m, key, value)
    IN IF size + kv_encoded_size(key) + kv_encoded_size(value) > L
       THEN [map |-> m, result |-> LimitError(key, value)]
       ELSE [map |-> inserted.map, result |-> Ok(inserted.old)]

\* InfoMap::with_capacity
InfoMap_with_capacity(n) == <<>>

\* out.try_insert(k, v).unwrap() on a LimitError
UnwrapLimitError ==
    [tag |-> "panicked", message |-> "called Result::unwrap() on an Err value: LimitError"]

\* the loop of to_owned from the i-th entry of m on: the owned map, or the
\* panic of the unwrap
RECURSIVE to_owned_from(_, _, _, _)
to_owned_from(L, out, m, i) ==
    IF i > Len(m) THEN Ok(out)
    ELSE LET r == try_insert(L, out, m[i].key, m[i].value)
         IN IF r.result.tag = "Err" THEN UnwrapLimitError
            ELSE to_owned_from(L, r.map, m, i + 1)

\* to_owned with the entries taken from the last to the first
InfoMap_to_owned_reversed(L, m) ==
    to_owned_from(L, InfoMap_with_capacity(InfoMap_len(m)),
                  [i \in 1 .. Len(m) |-> m[Len(m) + 1 - i]], 1)

\* InfoMap::to_owned
InfoMap_to_owned(L, m) ==
    to_owned_from(L, InfoMap_with_capacity(InfoMap_len(m)), m, 1)

ParseError == [tag |-> "Err"]

\* a parser's ErrMode::Backtrack
Backtrack == [ok |-> FALSE]

\* take_while(m.., |b| b != BACKSLASH): how many bytes it takes
take_while_not_backslash(inp) ==
    CHOOSE n \in 0 .. Len(inp) :
        /\ \A i \in 1 .. n : inp[i] # BACKSLASH
        /\ n = Len(inp) \/ inp[n + 1] = BACKSLASH

\* parse_infostr with take_while(0..): an empty key or value is taken
parse_infostr_takes_empty(inp) ==
    IF inp = <<>> \/ inp[1] # BACKSLASH THEN Backtrack
    ELSE LET after == Tail(inp)
             n == take_while_not_backslash(after)
             taken == SubSeq(after, 1, n)
         IN IF ~InfoStr_from_bytes(taken).ok THEN Backtrack
            ELSE [ok |-> TRUE, value |-> taken, rest |-> SubSeq(after, n + 1, Len(after))]

\* parse_infostr (and parse_infostring):
\* preceded(BACKSLASH, take_while(1.., |b| b != BACKSLASH)).try_map(InfoStr::from_bytes)
parse_infostr(inp) ==
    IF inp = <<>> \/ inp[1] # BACKSLASH THEN Backtrack
    ELSE LET after == Tail(inp)
             n == take_while_not_backslash(after)
             taken == SubSeq(after, 1, n)
         IN IF n < 1 THEN Backtrack
            ELSE IF ~InfoStr_from_bytes(taken).ok THEN Backtrack
            ELSE [ok |-> TRUE, value |-> taken, rest |-> SubSeq(after, n + 1, Len(after))]

\* repeat(0.., (parse_infostr, parse_infostr)): pairs are taken until the pair
\* parser backtracks, which puts the input back to where that pair began
RECURSIVE repeat_pairs(_, _)
repeat_pairs(inp, entries) ==
    LET k == parse_infostr(inp) IN
    IF ~k.ok THEN [entries |-> entries, rest |-> inp]
    ELSE LET v == parse_infostr(k.rest) IN
         IF ~v.ok THEN [entries |-> entries, rest |-> inp]
         ELSE repeat_pairs(v.rest, Append(entries, [key |-> k.value, value |-> v.value]))

\* parse_infostr_map with key and value handed to try_insert the wrong way round
RECURSIVE insert_entries_swapped(_, _, _)
insert_entries_swapped(L, m, entries) ==
    IF entries = <<>> THEN [ok |-> TRUE, map |-> m]
    ELSE LET r == try_insert(L, m, entries[1].value, entries[1].key)
         IN IF r.result.tag = "Err" THEN Backtrack
            ELSE insert_entries_swapped(L, r.map, Tail(entries))

\* parse_infostr_map, lines 188-193: the entries are inserted one by one
RECURSIVE insert_entries(_, _, _)
insert_entries(L, m, entries) ==
    IF entries = <<>> THEN [ok |-> TRUE, map |-> m]
    ELSE LET r == try_insert(L, m, entries[1].key, entries[1].value)
         IN IF r.result.tag = "Err" THEN Backtrack
            ELSE insert_entries(L, r.map, Tail(entries))

\* parse_infostr_map (and parse_infostring_map)
parse_infostr_map(L, inp) ==
    LET repeated == repeat_pairs(inp, <<>>)
        inserted == insert_entries(L, InfoMap_new, repeated.entries)
    IN IF ~inserted.ok THEN Backtrack
       ELSE [ok |-> TRUE, map |-> inserted.map, rest |-> repeated.rest]

\* InfoMap::parse with parse_next for parse: input left over is let through
InfoMap_parse_ignores_rest(L, bytes) ==
    LET r == parse_infostr_map(L, bytes)
    IN IF r.ok THEN [tag |-> "Ok", map |-> r.map]
       ELSE ParseError

\* InfoMap::parse: Parser::parse fails unless the parser took all of the input
InfoMap_parse(L, bytes) ==
    LET r == parse_infostr_map(L, bytes)
    IN IF r.ok /\ r.rest = <<>> THEN [tag |-> "Ok", map |-> r.map]
       ELSE ParseError

InfoIdle ==
    /\ info = InfoMap_new
    /\ call = NoCall
    /\ order = <<>>
    /\ input = <<>>
    /\ parsed = NotParsed

(***************************************************************************)
(* protocol/src/lib.rs, quake3/src/net/chan.rs: sequences, qports and      *)
(* fragments.  A c_int is an integer in -2^31 .. 2^31 - 1.                 *)
(***************************************************************************)
MAX_PACKETLEN == 1400

FRAGMENT_SIZE == MAX_PACKETLEN - 100

\* 1 << 31 as a c_int
FRAGMENT_BIT == (-2147483647) - 1

\* 0xFF_FF_FF_FFu32 as i32
CONNECTIONLESS_SEQUENCE == -1

\* c_ushort::MAX
U16_MAX == 65535

\* & of two non-negative integers
RECURSIVE BitAndNat(_, _)
BitAndNat(a, b) ==
    IF a = 0 \/ b = 0 THEN 0
    ELSE (a % 2) * (b % 2) + 2 * BitAndNat(a \div 2, b \div 2)

\* the low 31 bits of a c_int
Low31(x) == IF x >= 0 THEN x ELSE (x + 2147483647) + 1

\* & of two c_int, in two's complement
BitAnd(a, b) ==
    LET low == BitAndNat(Low31(a), Low31(b))
    IN IF a < 0 /\ b < 0 THEN (low - 2147483647) - 1 ELSE low

\* ! of a c_int
BitNot(x) == (-1) - x

Err(e) == [tag |-> "Err", error |-> e]

\* PacketSequenceNumber::new with only the connectionless marker turned down
PacketSequenceNumber_new_marker_only(b) ==
    IF CONNECTIONLESS_SEQUENCE = b THEN Err([name |-> "InvalidPacketSequenceNumberError"])
    ELSE Ok(b)

PacketSequenceNumber_new(b) ==
    IF CONNECTIONLESS_SEQUENCE = b THEN Err([name |-> "InvalidPacketSequenceNumberError"])
    ELSE IF BitAnd(b, FRAGMENT_BIT) # 0 THEN Err([name |-> "InvalidPacketSequenceNumberError"])
    ELSE Ok(b)

PacketSequence_new(b) == b

is_fragmented(sequence) == BitAnd(sequence, FRAGMENT_BIT) # 0

\* PacketSequence::number
number(sequence) == BitAnd(sequence, BitNot(FRAGMENT_BIT))

\* | of two c_int, in two's complement
BitOr(a, b) == BitNot(BitAnd(BitNot(a), BitNot(b)))

\* PacketSequence::new_with_number_and_fragment
PacketSequence_new_with_number_and_fragment(n, fragmented) ==
    IF fragmented THEN BitOr(n, FRAGMENT_BIT)
    ELSE BitAnd(n, BitNot(FRAGMENT_BIT))

Connectionless == [kind |-> "Connectionless"]

Sequenced(sequence) == [kind |-> "Sequenced", sequence |-> sequence]

\* PacketKind::parse with the fragment bit taken for the connectionless marker
PacketKind_parse_any_top_bit(b) ==
    IF BitAnd(b, FRAGMENT_BIT) # 0 THEN Connectionless
    ELSE Sequenced(PacketSequence_new(b))

PacketKind_parse(b) ==
    IF CONNECTIONLESS_SEQUENCE = b THEN Connectionless
    ELSE Sequenced(PacketSequence_new(b))

\* ConnectionlessMessage::new with the four bytes of the header counted in
ConnectionlessPacket_new_counts_header(payload) ==
    IF Len(payload) + 4 > MAX_PACKETLEN
    THEN Err([name |-> "InvalidConnectionlessMessageError", payload |-> payload])
    ELSE Ok([payload |-> payload])

\* ConnectionlessMessage::new, which server.rs knows as ConnectionlessPacket::new
ConnectionlessPacket_new(payload) ==
    IF Len(payload) > MAX_PACKETLEN
    THEN Err([name |-> "InvalidConnectionlessMessageError", payload |-> payload])
    ELSE Ok([payload |-> payload])

\* FragmentStart::new with > for >=
FragmentStart_new_takes_1400(start) ==
    IF start > MAX_PACKETLEN THEN Err([name |-> "InvalidFragmentStartError"])
    ELSE Ok(start)

FragmentStart_new(start) ==
    IF start >= MAX_PACKETLEN THEN Err([name |-> "InvalidFragmentStartError"])
    ELSE Ok(start)

FragmentLength_new(len) ==
    IF len > FRAGMENT_SIZE THEN Err([name |-> "InvalidFragmentLengthError"])
    ELSE Ok(len)

is_last_fragment(len) == len # FRAGMENT_SIZE

\* impl From<FragmentLength> for usize
usize_from(len) == len

\* TryFrom<usize> for FragmentLength with `value as c_ushort` for try_into
FragmentLength_try_from_wraps(value) == FragmentLength_new(value % (U16_MAX + 1))

\* impl TryFrom<usize> for FragmentLength
FragmentLength_try_from(value) ==
    IF value > U16_MAX THEN Err([name |-> "InvalidFragmentLengthError"])
    ELSE FragmentLength_new(value)

FragmentInfo_new(start, len) == [start |-> start, length |-> len]

\* FragmentInfo::is_last
is_last(fragment_info) == is_last_fragment(fragment_info.length)

QPort_new(port) ==
    IF 0 = port THEN Err([name |-> "InvalidQPortError"])
    ELSE Ok(port)

(***************************************************************************)
(* protocol/src/client.rs, protocol/src/server.rs: packets and             *)
(* parse_packet.  A Buf is the sequence of the bytes that remain.          *)
(***************************************************************************)
\* client.rs SequencedMessage::new, which server.rs knows as
\* crate::client::SequencedPacket::new
client_SequencedPacket_new(sequence, qport, payload) ==
    IF Len(payload) >= FRAGMENT_SIZE
    THEN Err([name |-> "InvalidSequencedMessageError", payload |-> payload])
    ELSE Ok([sequence |-> sequence, qport |-> qport, payload |-> payload])

\* client.rs FragmentedMessage::new, which server.rs knows as
\* crate::client::FragmentedPacket::new
client_FragmentedPacket_new(sequence, qport, fragment_start, payload) ==
    LET fragment_length == FragmentLength_try_from(Len(payload))
    IN IF fragment_length.tag = "Err"
       THEN Err([name |-> "InvalidFragmentedMessageError", payload |-> payload])
       ELSE Ok([sequence |-> sequence, qport |-> qport,
                fragment_info |-> FragmentInfo_new(fragment_start, fragment_length.value),
                payload |-> payload])

\* server.rs FragmentedPacket::new, the outgoing packet
server_FragmentedPacket_new(sequence, fragment_start, payload) ==
    LET fragment_length == FragmentLength_try_from(Len(payload))
    IN IF fragment_length.tag = "Err"
       THEN Err([name |-> "InvalidFragmentedPacketError", payload |-> payload])
       ELSE Ok([sequence |-> sequence,
                fragment_info |-> FragmentInfo_new(fragment_start, fragment_length.value),
                payload |-> payload])

\* server.rs SequencedPacket::new, the outgoing packet, which client.rs knows
\* as crate::server::SequencedMessage::new
server_SequencedPacket_new(sequence, payload) ==
    IF Len(payload) >= FRAGMENT_SIZE
    THEN Err([name |-> "InvalidSequencedPacketError", payload |-> payload])
    ELSE Ok([sequence |-> sequence, payload |-> payload])

\* size_of::<i32>(), size_of::<u16>()
SIZE_OF_I32 == 4

SIZE_OF_U16 == 2

\* Buf::remaining
remaining(buf) == Len(buf)

\* Buf::advance
advance(buf, n) == SubSeq(buf, n + 1, Len(buf))

\* Buf::get_i32_le: the next four bytes, lowest first, in two's complement
get_i32_le(buf) ==
    LET low == buf[1] + 256 * buf[2] + 65536 * buf[3]
    IN IF buf[4] >= 128 THEN (buf[4] - 256) * 16777216 + low
       ELSE buf[4] * 16777216 + low

\* Buf::get_u16_be in the place of get_u16_le
get_u16_be(buf) == 256 * buf[1] + buf[2]

\* Buf::get_u16_le
get_u16_le(buf) == buf[1] + 256 * buf[2]

\* InvalidPacketError::InvalidSize
InvalidSize == Err([variant |-> "InvalidSize"])

\* the ? operator: From<..> for InvalidPacketError
InvalidPacketError(variant, e) == Err([variant |-> variant, source |-> e.error])

\* a failed assert_eq!
AssertFailed == [tag |-> "panicked", message |-> "assert_eq: left and right differ"]

NoKind == [kind |-> "none"]

\* the fragmented arm of parse_packet with a missing fragment length reported
\* as an invalid fragment length
parse_fragmented_short_is_invalid_length(sequence, qport, after_qport) ==
    IF remaining(after_qport) < SIZE_OF_U16 THEN InvalidSize
    ELSE
    LET fragment_start == FragmentStart_new(get_u16_le(after_qport))
        after_start == advance(after_qport, SIZE_OF_U16)
    IN
    IF fragment_start.tag = "Err"
    THEN InvalidPacketError("InvalidFragmentStart", fragment_start)
    ELSE Err([variant |-> "InvalidFragmentLength",
              source |-> [name |-> "InvalidFragmentLengthError"]])

\* the fragmented arm of parse_packet, lines 189-210
parse_fragmented(sequence, qport, after_qport) ==
    IF remaining(after_qport) < SIZE_OF_U16 THEN InvalidSize
    ELSE
    LET fragment_start == FragmentStart_new(get_u16_le(after_qport))
        after_start == advance(after_qport, SIZE_OF_U16)
    IN
    IF fragment_start.tag = "Err"
    THEN InvalidPacketError("InvalidFragmentStart", fragment_start)
    ELSE IF remaining(after_start) < SIZE_OF_U16 THEN InvalidSize
    ELSE
    LET fragment_length == FragmentLength_new(get_u16_le(after_start))
        after_length == advance(after_start, SIZE_OF_U16)
    IN
    IF fragment_length.tag = "Err"
    THEN InvalidPacketError("InvalidFragmentLength", fragment_length)
    ELSE
    LET fragment_info == FragmentInfo_new(fragment_start.value, fragment_length.value)
        new == client_FragmentedPacket_new(number(sequence), qport,
                                           fragment_info.start, after_length)
    IN
    IF usize_from(fragment_info.length) # remaining(after_length) THEN AssertFailed
    ELSE IF new.tag = "Err" THEN InvalidPacketError("InvalidFragmentedPacket", new)
    ELSE Ok([packet |-> "Fragmented"] @@ new.value)

\* the sequenced arm of parse_packet, lines 183-216
parse_sequenced(sequence, after_header) ==
    IF remaining(after_header) < SIZE_OF_U16 THEN InvalidSize
    ELSE
    LET qport == QPort_new(get_u16_le(after_header))
        after_qport == advance(after_header, SIZE_OF_U16)
        new == client_SequencedPacket_new(number(sequence), qport.value, after_qport)
    IN
    IF qport.tag = "Err" THEN InvalidPacketError("InvalidQPort", qport)
    ELSE IF is_fragmented(sequence)
    THEN parse_fragmented(sequence, qport.value, after_qport)
    ELSE IF new.tag = "Err" THEN InvalidPacketError("InvalidSequencedPacket", new)
    ELSE Ok([packet |-> "Sequenced"] @@ new.value)

\* parse_packet: the packet kind it finds, if it gets that far, and its result
parse_packet(payload) ==
    IF remaining(payload) < SIZE_OF_I32 THEN [kind |-> NoKind, result |-> InvalidSize]
    ELSE
    LET packet_kind == PacketKind_parse(get_i32_le(payload))
        after_header == advance(payload, SIZE_OF_I32)
        new == ConnectionlessPacket_new(after_header)
    IN
    [kind |-> packet_kind,
     result |->
        IF packet_kind = Connectionless
        THEN IF new.tag = "Err" THEN InvalidPacketError("InvalidConnectionlessPacket", new)
             ELSE Ok([packet |-> "Connectionless"] @@ new.value)
        ELSE parse_sequenced(packet_kind.sequence, after_header)]

\* Buf::get_i32_le, Buf::get_u16_le with fewer bytes remaining than they take
BufUnderflow == [tag |-> "panicked", message |-> "Buf: not enough bytes remaining"]

\* the ? operator: From<..> for InvalidServerMessageError
InvalidServerMessageError(variant, e) == Err([variant |-> variant, source |-> e.error])

\* the fragmented arm of parse_server_packet, client.rs lines 143-156
parse_server_fragmented(sequence, after_header) ==
    IF remaining(after_header) < SIZE_OF_U16 THEN BufUnderflow
    ELSE
    LET fragment_start == FragmentStart_new(get_u16_le(after_header))
        after_start == advance(after_header, SIZE_OF_U16)
    IN
    IF fragment_start.tag = "Err"
    THEN InvalidServerMessageError("InvalidFragmentStart", fragment_start)
    ELSE IF remaining(after_start) < SIZE_OF_U16 THEN BufUnderflow
    ELSE
    LET fragment_length == FragmentLength_new(get_u16_le(after_start))
        after_length == advance(after_start, SIZE_OF_U16)
    IN
    IF fragment_length.tag = "Err"
    THEN InvalidServerMessageError("InvalidFragmentLength", fragment_length)
    ELSE
    LET fragment_info == FragmentInfo_new(fragment_start.value, fragment_length.value)
        new == server_FragmentedPacket_new(number(sequence), fragment_info.start, after_length)
    IN
    IF usize_from(fragment_info.length) # remaining(after_length) THEN AssertFailed
    ELSE IF new.tag = "Err" THEN InvalidServerMessageError("InvalidFragmentedMessage", new)
    ELSE Ok([packet |-> "Fragmented"] @@ new.value)

\* client.rs parse_server_packet: the packet kind it finds, if it gets that
\* far, and its result
parse_server_packet(payload) ==
    IF remaining(payload) < SIZE_OF_I32 THEN [kind |-> NoKind, result |-> BufUnderflow]
    ELSE
    LET packet_kind == PacketKind_parse(get_i32_le(payload))
        after_header == advance(payload, SIZE_OF_I32)
        connectionless == ConnectionlessPacket_new(after_header)
        sequenced == server_SequencedPacket_new(number(packet_kind.sequence), after_header)
    IN
    [kind |-> packet_kind,
     result |->
        IF packet_kind = Connectionless
        THEN IF connectionless.tag = "Err"
             THEN InvalidServerMessageError("InvalidConnectionlessMessage", connectionless)
             ELSE Ok([packet |-> "Connectionless"] @@ connectionless.value)
        ELSE IF is_fragmented(packet_kind.sequence)
        THEN parse_server_fragmented(packet_kind.sequence, after_header)
        ELSE IF sequenced.tag = "Err"
        THEN InvalidServerMessageError("InvalidSequencedMessage", sequenced)
        ELSE Ok([packet |-> "Sequenced"] @@ sequenced.value)]

\* ConnectionlessCommand::parse's result for a token that is no command
ParseCommandError == Err([name |-> "ParseCommandError"])

\* b"getstatus", b"getinfo", b"getchallenge", b"connect", b"ipAuthorize"
GETSTATUS_COMMAND == <<103, 101, 116, 115, 116, 97, 116, 117, 115>>

GETINFO_COMMAND == <<103, 101, 116, 105, 110, 102, 111>>

GETCHALLENGE_COMMAND == <<103, 101, 116, 99, 104, 97, 108, 108, 101, 110, 103, 101>>

CONNECT_COMMAND == <<99, 111, 110, 110, 101, 99, 116>>

IPAUTHORIZE_COMMAND == <<105, 112, 65, 117, 116, 104, 111, 114, 105, 122, 101>>

\* ConnectionlessCommand::parse: match bytes { .. }, a comparison of slices
ConnectionlessCommand_parse(bytes) ==
    CASE bytes = GETSTATUS_COMMAND -> Ok("GetStatus")
      [] bytes = GETINFO_COMMAND -> Ok("GetInfo")
      [] bytes = GETCHALLENGE_COMMAND -> Ok("GetChallenge")
      [] bytes = CONNECT_COMMAND -> Ok("Connect")
      [] bytes = IPAUTHORIZE_COMMAND -> Ok("IpAuthorize")
      [] OTHER -> ParseCommandError

\* MAX_INFO_STRING
INFO_LIMIT == 1024

\* b" " and b"\""
SPACE == <<32>>

QUOTE == <<34>>

\* winnow's literal(tag): the input begins with the bytes of tag
literal(tag, inp) ==
    IF Len(inp) >= Len(tag) /\ SubSeq(inp, 1, Len(tag)) = tag
    THEN [ok |-> TRUE, value |-> tag, rest |-> SubSeq(inp, Len(tag) + 1, Len(inp))]
    ELSE Backtrack

\* winnow's le_u16 on a complete input
le_u16(inp) ==
    IF Len(inp) < SIZE_OF_U16 THEN Backtrack
    ELSE [ok |-> TRUE, value |-> get_u16_le(inp), rest |-> advance(inp, SIZE_OF_U16)]

\* winnow's rest
rest(inp) == [ok |-> TRUE, value |-> inp, rest |-> <<>>]

\* winnow's take_until(1.., b'"'): the bytes before the first quote, of which
\* there must be one at least; the quote is not taken
take_until_quote(inp) ==
    LET found == memchr(QUOTE[1], inp)
    IN IF found = None THEN Backtrack
       ELSE IF found[1] < 1 THEN Backtrack
       ELSE [ok |-> TRUE, value |-> SubSeq(inp, 1, found[1]),
             rest |-> SubSeq(inp, found[1] + 1, Len(inp))]

\* delimited(b"\"", take_until(1.., b'\"'), b"\"").parse_next(..): what is left
\* of the input after the second quote is not looked at
delimited_by_quotes(inp) ==
    LET open == literal(QUOTE, inp) IN
    IF ~open.ok THEN Backtrack
    ELSE LET inner == take_until_quote(open.rest) IN
         IF ~inner.ok THEN Backtrack
         ELSE LET close == literal(QUOTE, inner.rest) IN
              IF ~close.ok THEN Backtrack
              ELSE [ok |-> TRUE, value |-> inner.value, rest |-> close.rest]

\* recognize_connect_payload
recognize_connect_payload(inp) == literal(CONNECT_COMMAND, inp)

\* parse_connect_payload, lines 309-314: seq!(_: literal(b" "), le_u16, rest)
parse_connect_blob(inp) ==
    LET space == literal(SPACE, inp) IN
    IF ~space.ok THEN Backtrack
    ELSE LET len == le_u16(space.rest) IN
         IF ~len.ok THEN Backtrack
         ELSE [ok |-> TRUE, len |-> len.value, bytes |-> rest(len.rest).value]

\* ConnectMessage::new
ConnectMessage_new(user_info) == [user_info |-> user_info]

\* ParseConnectMessageError(())
ParseConnectMessageError == Err([name |-> "ParseConnectMessageError"])

\* Result::unwrap() on an Err
UnwrapFailed == [tag |-> "panicked", message |-> "called Result::unwrap() on an Err value"]

\* parse_connect_payload, lines 321-327, and the map_err of parse_packet: the
\* decoded bytes are unquoted and the info string parsed
parse_connect_decoded(bytes) ==
    LET user_info == delimited_by_quotes(bytes) IN
    IF ~user_info.ok THEN ParseConnectMessageError
    ELSE LET map == InfoMap_parse(INFO_LIMIT, user_info.value) IN
         IF map.tag = "Err" THEN UnwrapFailed
         ELSE Ok(ConnectMessage_new(map.map))

NoPacket == [tag |-> "none"]

NotMade == [op |-> "none"]

PacketIdle ==
    /\ datagram = <<>>
    /\ kind = NoKind
    /\ packet = NoPacket
    /\ made = NotMade

\* no call of ConnectMessage::parse_packet yet
NoMessage == [tag |-> "none"]

ConnectIdle ==
    /\ request = <<>>
    /\ connect_message = NoMessage
    /\ cpc = "idle"

(***************************************************************************)
(* Huffman::encode and Huffman::decode as processes: one step per pass of  *)
(* their loops.                                                            *)
(***************************************************************************)
\* the letters encode is fed: 'a', 'b', 'c', ...
InputSymbols == 97 .. (97 + NumInputSymbols - 1)

RECURSIVE SeqsUpTo(_, _)
SeqsUpTo(S, n) ==
    IF n = 0 THEN {<<>>}
    ELSE LET shorter == SeqsUpTo(S, n - 1)
         IN shorter \cup {Append(q, x) : q \in {r \in shorter : Len(r) = n - 1}, x \in S}

EncoderIdle ==
    /\ encoder = adaptive
    /\ plain = <<>>
    /\ consumed = 0
    /\ bits = <<>>
    /\ epc = "idle"

DecoderIdle ==
    /\ decoder = adaptive
    /\ stream = <<>>
    /\ length = 0
    /\ cursor = 0
    /\ node_index = ROOT
    /\ decoded = <<>>
    /\ written = 0
    /\ dpc = "idle"

\* a fresh coder is asked to encode a message
EncodeCall(bytes) ==
    /\ encoder = adaptive
    /\ plain = bytes
    /\ consumed = 0
    /\ bits = <<>>
    /\ epc = "loop"

Init ==
    /\ \E bytes \in SeqsUpTo(InputSymbols, MaxLen) : EncodeCall(bytes)
    /\ DecoderIdle
    /\ InfoIdle
    /\ PacketIdle
    /\ ConnectIdle

\* Huffman::encode, lines 336-359: one pass of the for loop
EncodeStep ==
    /\ epc = "loop"
    /\ consumed < Len(plain)
    /\ LET symbol == plain[consumed + 1]
           e == encode_bits(encoder, symbol)
           h == insert(encoder, symbol)
       IN /\ consumed' = consumed + 1
          /\ IF e.fault
             THEN /\ epc' = "panicked"
                  /\ UNCHANGED <<encoder, bits>>
             ELSE /\ bits' = bits \o e.bits
                  /\ encoder' = h
                  /\ epc' = IF h.fault # "none" THEN "panicked" ELSE "loop"
    /\ UNCHANGED <<plain, decoder, stream, length, cursor, node_index, decoded, written, dpc>>
    /\ UNCHANGED notHuffVars

\* Huffman::encode, line 361: the loop is over and the bits are returned
EncodeReturn ==
    /\ epc = "loop"
    /\ consumed = Len(plain)
    /\ epc' = "returned"
    /\ UNCHANGED <<encoder, plain, consumed, bits,
                   decoder, stream, length, cursor, node_index, decoded, written, dpc>>
    /\ UNCHANGED notHuffVars

\* Huffman::decode, lines 370-379: the call, on a fresh coder
DecodeCall(h, slice, len, buffer) ==
    /\ decoder' = h
    /\ stream' = slice
    /\ length' = len
    /\ cursor' = 0
    /\ node_index' = ROOT
    /\ decoded' = buffer
    /\ written' = 0
    /\ dpc' = "loop"

\* tests::huffman_adaptive_decode_simple: the bytes encode produced for a
\* message are decoded by a fresh coder that is asked for as many bytes
RoundTrip ==
    /\ epc = "returned"
    /\ dpc = "idle"
    /\ DecodeCall(adaptive, as_bitslice(as_raw_slice(bits)), Len(plain), <<>>)
    /\ UNCHANGED <<encoder, plain, consumed, bits, epc>>
    /\ UNCHANGED notHuffVars

\* bits.next(), n times: the bits, or a panic of unwrap() when fewer are left
BitsLeft == Len(stream) - cursor

\* read_value with the eight bits taken bit 0 first
read_value_bit0_first(b) ==
    b[1] + 2 * b[2] + 4 * b[3] + 8 * b[4] + 16 * b[5] + 32 * b[6] + 64 * b[7] + 128 * b[8]

\* Huffman::decode, lines 384-400: the byte of eight bits, bit 7 first
read_value(b) ==
    128 * b[1] + 64 * b[2] + 32 * b[3] + 16 * b[4] + 8 * b[5] + 4 * b[6] + 2 * b[7] + b[8]

\* Huffman::decode, lines 403-406 and 411-414: a byte is produced
Produce(symbol, taken) ==
    LET h == insert(decoder, symbol) IN
    /\ cursor' = cursor + taken
    /\ decoded' = Append(decoded, symbol)
    /\ written' = written + 1
    /\ decoder' = h
    /\ node_index' = ROOT
    /\ dpc' = IF h.fault # "none" THEN "panicked" ELSE "loop"

\* bits.next().unwrap() on an exhausted iterator: the bits left are taken and
\* the call unwinds
Exhausted ==
    /\ cursor' = Len(stream)
    /\ dpc' = "panicked"
    /\ UNCHANGED <<decoder, node_index, decoded, written>>

\* Huffman::decode, lines 380-424: one pass of the while loop
DecodeStep ==
    /\ dpc = "loop"
    /\ written < length
    /\ IF ~Populated(decoder, node_index)
       THEN /\ dpc' = "panicked"
            /\ UNCHANGED <<decoder, cursor, node_index, decoded, written>>
       ELSE LET node == node_ref(decoder, node_index) IN
            CASE node.kind = "NotYetTransmitted" ->
                   IF BitsLeft < 8 THEN Exhausted
                   ELSE Produce(read_value(SubSeq(stream, cursor + 1, cursor + 8)), 8)
              [] node.kind = "Leaf" -> Produce(node.symbol, 0)
              [] node.kind = "Internal" ->
                   IF BitsLeft < 1 THEN Exhausted
                   ELSE /\ cursor' = cursor + 1
                        /\ node_index' = IF stream[cursor + 1] = 1 THEN node.right
                                         ELSE node.left
                        /\ UNCHANGED <<decoder, decoded, written, dpc>>
    /\ UNCHANGED <<encoder, plain, consumed, bits, epc, stream, length>>
    /\ UNCHANGED notHuffVars

\* Huffman::decode, line 380 and 425: written = length, the call returns
DecodeReturn ==
    /\ dpc = "loop"
    /\ written >= length
    /\ dpc' = "returned"
    /\ UNCHANGED <<encoder, plain, consumed, bits, epc,
                   decoder, stream, length, cursor, node_index, decoded, written>>
    /\ UNCHANGED notHuffVars

Next ==
    \/ EncodeStep
    \/ EncodeReturn
    \/ RoundTrip
    \/ DecodeStep
    \/ DecodeReturn

Spec == Init /\ [][Next]_vars

(***************************************************************************)
(* Every byte value once: encode is handed the bytes 0, 1, 2, ... in       *)
(* order, all but the last of them or all 256.                             *)
(***************************************************************************)
Ascending(n) == [i \in 1 .. n |-> i - 1]

InitAllBytes ==
    /\ \E n \in {MAX_SYMBOLS - 1, MAX_SYMBOLS} : EncodeCall(Ascending(n))
    /\ DecoderIdle
    /\ InfoIdle
    /\ PacketIdle
    /\ ConnectIdle

SpecAllBytes == InitAllBytes /\ [][Next]_vars

(***************************************************************************)
(* fuzz_targets/decode_adaptive.rs: decode on arbitrary data, for an       *)
(* arbitrary number of bytes, into an empty buffer.                        *)
(***************************************************************************)
\* the bytes of the data: those of the encoded "aab", all zeros, all ones
StreamBytes == {0, 1, 25, 134, 255}

InitDecode ==
    /\ EncoderIdle
    /\ InfoIdle
    /\ PacketIdle
    /\ ConnectIdle
    /\ \E data \in SeqsUpTo(StreamBytes, MaxStreamLen), len \in 0 .. MaxDecodeLength :
          /\ decoder = adaptive
          /\ stream = as_bitslice(data)
          /\ length = len
          /\ cursor = 0
          /\ node_index = ROOT
          /\ decoded = <<>>
          /\ written = 0
          /\ dpc = "loop"

NextDecode ==
    \/ DecodeStep
    \/ DecodeReturn

SpecDecode == InitDecode /\ [][NextDecode]_vars

(***************************************************************************)
(* The claims about the Huffman coder.                                     *)
(***************************************************************************)
\* C1: encode/decode round trip. Encoding any byte sequence with a fresh coder
\* yields bits, and a fresh coder decoding them for as many bytes yields
\* the sequence: neither call panics and the decoded bytes are the input.
\* Stated over the full byte alphabet.
C1_RoundTrip ==
    /\ epc # "panicked"
    /\ dpc # "panicked"
    /\ dpc = "returned" => decoded = plain

\* C2: arena bound. Whatever the input, the coder uses at most MAX_NODES
\* arena slots: no tree index >= MAX_NODES is written or read, and no call
\* panics on an index out of bounds.
C2_ArenaBound ==
    /\ encoder.next <= MAX_NODES
    /\ decoder.next <= MAX_NODES
    /\ encoder.fault # "tree: index out of bounds"
    /\ decoder.fault # "tree: index out of bounds"

\* C4: decode outcome. For every bit stream and every requested length,
\* decode either returns with exactly `length` bytes appended or fails with a
\* truncation error value: it never panics when the stream runs out.
C4_DecodeOutcome ==
    /\ dpc = "returned" => written = length /\ Len(decoded) = length
    /\ dpc # "panicked"

\* the slots of the tree below slot i (i included), each with the child choices
\* that lead to it from i: 0 for a left child, 1 for a right child
RECURSIVE Descend(_, _, _)
Descend(h, i, path) ==
    LET n == h.tree[i] IN
    IF n.kind = "Internal"
    THEN {<<i, path>>} \cup Descend(h, n.left, Append(path, 0))
                       \cup Descend(h, n.right, Append(path, 1))
    ELSE {<<i, path>>}

\* the root-to-node paths of the nodes that satisfy Is
RootPaths(h, Is(_)) == {d[2] : d \in {e \in Descend(h, ROOT, <<>>) : Is(h.tree[e[1]])}}

\* what the encode rule allows for symbol s on tree h: the path to the leaf of
\* s when s was seen, else the path to the NYT node and then s, bit 7 first
RuleBits(h, s, seen) ==
    LET IsLeafOfS(n) == n.kind = "Leaf" /\ n.symbol = s
        IsNYT(n) == n.kind = "NotYetTransmitted"
    IN IF seen
       THEN RootPaths(h, IsLeafOfS)
       ELSE {p \o <<BitOf(s, 7), BitOf(s, 6), BitOf(s, 5), BitOf(s, 4),
                    BitOf(s, 3), BitOf(s, 2), BitOf(s, 1), BitOf(s, 0)>> :
                p \in RootPaths(h, IsNYT)}

\* the coder after the symbols of `prefix` were inserted, one after the other
RECURSIVE CoderAfter(_)
CoderAfter(prefix) ==
    IF prefix = <<>> THEN adaptive
    ELSE insert(CoderAfter(SubSeq(prefix, 1, Len(prefix) - 1)), prefix[Len(prefix)])

\* what the encode rule allows for the bytes of `prefix`, each on the tree the
\* bytes before it have built
RECURSIVE RuleOutput(_)
RuleOutput(prefix) ==
    IF prefix = <<>> THEN {<<>>}
    ELSE LET before == SubSeq(prefix, 1, Len(prefix) - 1)
             s == prefix[Len(prefix)]
         IN {a \o b : a \in RuleOutput(before),
                      b \in RuleBits(CoderAfter(before), s,
                                     \E i \in 1 .. Len(before) : before[i] = s)}

\* bit i of the vector is bit (i mod 8), counted from the least significant, of
\* byte (i div 8)
PackedLsbFirst(bv, raw) ==
    /\ Len(raw) * 8 >= Len(bv)
    /\ Len(raw) * 8 < Len(bv) + 8
    /\ \A i \in 0 .. (Len(bv) - 1) : BitOf(raw[(i \div 8) + 1], i % 8) = bv[i + 1]

\* C3: the encode rule. The bits pushed for each input byte s are, on the tree
\* as it is before s is inserted, the root-to-leaf path of s (0 left, 1 right)
\* when s was seen before, and else the root-to-NYT path followed by the eight
\* bits of s, bit 7 first; s is inserted after its bits are pushed, once; the
\* bits are packed into bytes least significant bit first, so that "aab"
\* encodes to 86 19 01.
C3_EncodeRule ==
    LET done == SubSeq(plain, 1, consumed) IN
    /\ epc \in {"loop", "returned"} =>
          /\ RuleOutput(done) = {bits}
          /\ encoder = CoderAfter(done)
          /\ PackedLsbFirst(bits, as_raw_slice(bits))
    /\ epc = "returned" /\ plain = <<97, 97, 98>> => as_raw_slice(bits) = <<134, 25, 1>>

\* "aab" was encoded: a new symbol on the empty tree, a seen symbol, and a new
\* symbol below the root
C3_Witness ==
    /\ epc = "returned"
    /\ plain = <<97, 97, 98>>
    /\ bits = <<0, 1, 1, 0, 0, 0, 0, 1,  1,  0,  0, 1, 1, 0, 0, 0, 1, 0>>

(***************************************************************************)
(* tests::infomap_tryinsert: calls of try_insert on one map, with any      *)
(* InfoStr keys and values.                                                *)
(***************************************************************************)
\* the bytes keys and values are made from: NUL, backslash, 'a', 'b'
InfoBytes == {NUL, BACKSLASH, 97, 98}

\* the byte strings that InfoStr::from_bytes accepts
InfoStrs == {b \in SeqsUpTo(InfoBytes, MaxStrLen) : InfoStr_from_bytes(b).ok}

HuffIdle == EncoderIdle /\ DecoderIdle

InitInfoMap ==
    /\ HuffIdle
    /\ InfoIdle
    /\ PacketIdle
    /\ ConnectIdle

\* info.try_insert(key, value)
TryInsert ==
    /\ \E key \in InfoStrs, value \in InfoStrs :
          LET r == try_insert(MapLimit, info, key, value) IN
          /\ info' = r.map
          /\ call' = [op |-> "try_insert", key |-> key, value |-> value,
                      before |-> info, result |-> r.result]
          /\ order' = IF r.result.tag = "Ok" /\ r.result.value = None
                      THEN Append(order, key)
                      ELSE order
    /\ UNCHANGED <<input, parsed>>
    /\ UNCHANGED notInfoVars

NextInfoMap == TryInsert

SpecInfoMap == InitInfoMap /\ [][NextInfoMap]_vars

(***************************************************************************)
(* The claims about try_insert.                                            *)
(***************************************************************************)
\* the serialized size of a map: a backslash and the key, a backslash and the
\* value, for every entry
SerializedSize(m) ==
    LET RECURSIVE Upto(_)
        Upto(n) == IF n = 0 THEN 0
                   ELSE Upto(n - 1) + (1 + Len(m[n].key)) + (1 + Len(m[n].value))
    IN Upto(Len(m))

KeyPositions(m, key) == {i \in 1 .. Len(m) : m[i].key = key}

\* the size the map would have with value stored under key: the size it has,
\* less the entry key has now if it has one, plus the entry (key, value)
ProspectiveSize(m, key, value) ==
    LET now == KeyPositions(m, key)
        gone == IF now = {} THEN <<>> ELSE <<m[CHOOSE i \in now : TRUE]>>
    IN SerializedSize(m) - SerializedSize(gone) + (1 + Len(key)) + (1 + Len(value))

Called == call.op = "try_insert"

\* C5: the budget. After any calls of try_insert, failed or not, on new or on
\* present keys, the entries' sizes (1 + len(key)) + (1 + len(value)) sum to at
\* most L.
C5_Budget == SerializedSize(info) <= MapLimit

\* the map is full to the byte and the last call failed for that
C5_Witness ==
    /\ Called
    /\ call.result.tag = "Err"
    /\ SerializedSize(info) = MapLimit
    /\ Len(info) >= 2

\* C6: a try_insert(k, v) whose prospective total exceeds L returns a
\* LimitError with exactly k and v and leaves the map as it was: the same
\* entries with the same values in the same order.
C6_LimitError ==
    Called /\ ProspectiveSize(call.before, call.key, call.value) > MapLimit =>
        /\ call.result = LimitError(call.key, call.value)
        /\ info = call.before
        /\ Len(info) = Len(call.before)

\* a call on a map of two entries failed, for a key the map has
C6_Witness ==
    /\ Called
    /\ call.result.tag = "Err"
    /\ Len(call.before) >= 2
    /\ KeyPositions(call.before, call.key) # {}

\* C7: try_insert(k, v) for a key of the map succeeds iff the total, less the
\* old entry of k, plus the entry (k, v), is at most L, and then returns
\* Some(old value), stores v under k and leaves len as it was; for a key not in
\* the map it succeeds iff the total plus the entry (k, v) is at most L, and
\* then returns None.
C7_Replace ==
    Called =>
        LET m == call.before
            at == KeyPositions(m, call.key)
            succeeded == call.result.tag = "Ok"
        IN IF at # {}
           THEN LET i == CHOOSE i \in at : TRUE
                    old == (1 + Len(m[i].key)) + (1 + Len(m[i].value))
                    new == (1 + Len(call.key)) + (1 + Len(call.value))
                IN /\ succeeded <=> SerializedSize(m) - old + new <= MapLimit
                   /\ succeeded =>
                        /\ call.result.value = Some(m[i].value)
                        /\ \E j \in 1 .. Len(info) :
                              info[j] = [key |-> call.key, value |-> call.value]
                        /\ Len(info) = Len(m)
           ELSE /\ succeeded <=>
                      SerializedSize(m) + (1 + Len(call.key)) + (1 + Len(call.value))
                          <= MapLimit
                /\ succeeded => call.result.value = None

\* a longer value replaced a shorter one, which fits only because the old
\* entry is left out of the sum
C7_Witness ==
    /\ Called
    /\ call.result.tag = "Ok"
    /\ call.result.value # None
    /\ Len(call.value) > Len(call.result.value[1])
    /\ SerializedSize(call.before) + (1 + Len(call.key)) + (1 + Len(call.value)) > MapLimit

\* C8: after any calls of try_insert the keys of the map are pairwise
\* distinct and iter() yields the entries in the order in which each key was
\* first inserted: a key that is overwritten stays where it is.
C8_Order ==
    /\ \A i, j \in 1 .. Len(info) : info[i].key = info[j].key => i = j
    /\ [i \in 1 .. Len(info) |-> info[i].key] = order

\* the first of three keys was overwritten with another value
C8_Witness ==
    /\ Called
    /\ Len(info) = 3
    /\ call.result.tag = "Ok"
    /\ call.result.value # None
    /\ call.key = info[1].key
    /\ call.result.value[1] # call.value

(***************************************************************************)
(* tests::infomap_parse_infostr: one call of InfoMap::parse, on any short  *)
(* byte string and on strings of \KEY\VALUE groups.                        *)
(***************************************************************************)
\* the keys and the values of the groups
GroupKeys == {<<97>>, <<98>>, <<97, 97>>}

GroupValues == {<<97>>, <<98, 98>>, <<97, 97, 97, 97, 97>>}

\* the bytes of a list of groups: \KEY\VALUE for each
RECURSIVE GroupBytes(_)
GroupBytes(groups) ==
    IF groups = <<>> THEN <<>>
    ELSE <<BACKSLASH>> \o groups[1][1] \o <<BACKSLASH>> \o groups[1][2]
         \o GroupBytes(Tail(groups))

ParseInputs ==
    SeqsUpTo(InfoBytes, MaxInput)
        \cup {GroupBytes(g) : g \in SeqsUpTo(GroupKeys \X GroupValues, MaxGroups)}

InitInfoParse ==
    /\ HuffIdle
    /\ info = InfoMap_new
    /\ call = NoCall
    /\ order = <<>>
    /\ input \in ParseInputs
    /\ parsed = NotParsed
    /\ PacketIdle
    /\ ConnectIdle

\* InfoMap::<&InfoStr, &InfoStr, L>::parse(input)
Parse ==
    /\ parsed = NotParsed
    /\ parsed' = InfoMap_parse(ParseLimit, input)
    /\ UNCHANGED <<info, call, order, input>>
    /\ UNCHANGED notInfoVars

NextInfoParse == Parse

SpecInfoParse == InitInfoParse /\ [][NextInfoParse]_vars

(***************************************************************************)
(* The claims about InfoMap::parse.                                        *)
(***************************************************************************)
Backslashes(inp) == {i \in 1 .. Len(inp) : inp[i] = BACKSLASH}

\* the elements of an input: after each backslash, the bytes up to the next
\* backslash or to the end
Elements(inp) ==
    LET bs == Backslashes(inp)
        Nth(k) == CHOOSE p \in bs : Cardinality({q \in bs : q <= p}) = k
        End(p) == IF \E q \in bs : q > p
                  THEN (CHOOSE q \in bs : q > p /\ \A r \in bs : r > p => q <= r) - 1
                  ELSE Len(inp)
    IN [k \in 1 .. Cardinality(bs) |-> SubSeq(inp, Nth(k) + 1, End(Nth(k)))]

MissingLeadingBackslash(inp) == inp # <<>> /\ inp[1] # BACKSLASH

\* an empty key or value: two backslashes in a row, or a backslash at the end
HasEmptyElement(inp) == \E k \in 1 .. Len(Elements(inp)) : Elements(inp)[k] = <<>>

OddElements(inp) == Len(Elements(inp)) % 2 = 1

HasNul(inp) == \E i \in 1 .. Len(inp) : inp[i] = NUL

\* zero or more \KEY\VALUE groups and nothing else
WellFormed(inp) ==
    /\ ~MissingLeadingBackslash(inp)
    /\ ~HasEmptyElement(inp)
    /\ ~OddElements(inp)
    /\ ~HasNul(inp)

\* the groups of a well-formed input
GroupsOf(inp) ==
    [k \in 1 .. (Len(Elements(inp)) \div 2) |->
        [key |-> Elements(inp)[2 * k - 1], value |-> Elements(inp)[2 * k]]]

HasDuplicateKey(groups) ==
    \E i, j \in 1 .. Len(groups) : i < j /\ groups[i].key = groups[j].key

\* the groups with each key once, where it first appears, and with the value
\* of the last group that has the key
Merged(groups) ==
    LET firsts == {i \in 1 .. Len(groups) : \A j \in 1 .. (i - 1) : groups[j].key # groups[i].key}
        Nth(k) == CHOOSE i \in firsts : Cardinality({j \in firsts : j <= i}) = k
        LastOf(key) == CHOOSE j \in 1 .. Len(groups) :
                          /\ groups[j].key = key
                          /\ \A l \in (j + 1) .. Len(groups) : groups[l].key # key
    IN [k \in 1 .. Cardinality(firsts) |->
          [key |-> groups[Nth(k)].key, value |-> groups[LastOf(groups[Nth(k)].key)].value]]

WasParsed == parsed # NotParsed

DistinctKeys(groups) == ~HasDuplicateKey(groups)

\* C10: parse of the empty input returns an empty map; parse fails with
\* ParseError for an input with an empty key or value, with an odd number of
\* elements, with a NUL in a key or value, with a byte left over after the last
\* complete group (a trailing backslash, a missing leading backslash), or with
\* groups of distinct keys whose total encoded size exceeds L.
C10_ParseRejects ==
    WasParsed =>
        /\ input = <<>> => parsed = [tag |-> "Ok", map |-> <<>>]
        /\ HasEmptyElement(input) => parsed = ParseError
        /\ OddElements(input) => parsed = ParseError
        /\ HasNul(input) => parsed = ParseError
        /\ MissingLeadingBackslash(input) => parsed = ParseError
        /\ input # <<>> /\ input[Len(input)] = BACKSLASH => parsed = ParseError
        /\ (/\ WellFormed(input)
            /\ DistinctKeys(GroupsOf(input))
            /\ SerializedSize(GroupsOf(input)) > ParseLimit) => parsed = ParseError

\* groups of distinct keys, well formed, one byte over the limit, were rejected
C10_Witness ==
    /\ WasParsed
    /\ WellFormed(input)
    /\ DistinctKeys(GroupsOf(input))
    /\ Len(input) = ParseLimit + 1
    /\ parsed = ParseError

(***************************************************************************)
(* The round trips of InfoMap::parse.  The library has no serializer (the  *)
(* source says "TODO: write as bytes"), so the bytes of a map are what the *)
(* claims say they are: \KEY\VALUE for each entry that iter() yields.      *)
(***************************************************************************)
RECURSIVE Emitted(_)
Emitted(m) ==
    IF m = <<>> THEN <<>>
    ELSE <<BACKSLASH>> \o m[1].key \o <<BACKSLASH>> \o m[1].value \o Emitted(Tail(m))

Accepted == WasParsed /\ parsed.tag = "Ok"

Build ==
    /\ parsed = NotParsed
    /\ TryInsert

\* InfoMap::<InfoString, InfoString, L>::parse of the bytes of the map
ParseBack ==
    /\ parsed = NotParsed
    /\ input' = Emitted(info)
    /\ parsed' = InfoMap_parse(MapLimit, Emitted(info))
    /\ UNCHANGED <<info, call, order>>
    /\ UNCHANGED notInfoVars

NextInfoRoundTrip == Build \/ ParseBack

SpecInfoRoundTrip == InitInfoMap /\ [][NextInfoRoundTrip]_vars

\* no key and no value of the map is the empty string
NoneEmpty(m) == \A i \in 1 .. Len(m) : m[i].key # <<>> /\ m[i].value # <<>>

\* C12 as claimed: for every map M built through successful try_insert calls
\* under limit L, parsing the bytes of M (\KEY\VALUE per entry in insertion
\* order) under the same L succeeds and yields the same entries in the same
\* order.
C12_ParseEmitted == WasParsed => parsed = [tag |-> "Ok", map |-> info]

\* C12 as amended: that holds for every such map whose keys and values are all
\* non-empty. InfoStr::from_bytes and try_insert take the empty string, but the
\* bytes of a map with an empty key or value are rejected by parse.
C12_ParseEmittedNoneEmpty ==
    WasParsed =>
        /\ NoneEmpty(info) => parsed = [tag |-> "Ok", map |-> info]
        /\ ~NoneEmpty(info) => parsed = ParseError

\* a map of two entries, the first of them overwritten, came back
C12_Witness ==
    /\ WasParsed
    /\ Len(info) = 2
    /\ NoneEmpty(info)
    /\ order[1] = info[1].key
    /\ call.key = info[1].key
    /\ call.result = Ok(Some(info[2].value))
    /\ info[1].value # info[2].value
    /\ parsed = [tag |-> "Ok", map |-> info]

(***************************************************************************)
(* server.rs tests::parse_packet_*: one call of parse_packet on a          *)
(* datagram, and PacketSequenceNumber::new on the bits of its header.      *)
(***************************************************************************)
\* the four bytes of a header: 0xFFFFFFFF, 0, 0xFF, 0x7FFFFFFF, 0x80000000,
\* 0x800000FF, 0xFFFFFFFE and others
Headers ==
    {<<b0, b12, b12, b3>> : b0 \in {0, 254, 255}, b12 \in {0, 255}, b3 \in {0, 127, 128, 255}}

\* the two bytes of a qport: 0, 666, 256
QPortBytes == {<<0, 0>>, <<154, 2>>, <<0, 1>>}

\* a 16-bit number, lowest byte first
U16Bytes(n) == <<n % 256, n \div 256>>

FragmentStarts == {1, MAX_PACKETLEN - 1, MAX_PACKETLEN}

\* the fragment lengths a datagram of n payload bytes declares
DeclaredLengths(n) == {n, n + 1, FRAGMENT_SIZE + 1}

PayloadLengths ==
    {0, 1, 4}
        \cup ((FRAGMENT_SIZE - Slack) .. (FRAGMENT_SIZE + Slack))
        \cup ((MAX_PACKETLEN - 4 - Slack) .. (MAX_PACKETLEN - 4 + Slack))
        \cup ((MAX_PACKETLEN - Slack) .. (MAX_PACKETLEN + Slack))

\* n payload bytes, no two neighbours alike
PayloadBytes(n) == [i \in 1 .. n |-> (7 * i) % 256]

\* what follows the header: payload bytes; a qport and payload bytes; a qport,
\* a fragment start, a fragment length and payload bytes
Bodies ==
    {PayloadBytes(n) : n \in PayloadLengths}
        \cup {q \o PayloadBytes(n) : q \in QPortBytes, n \in PayloadLengths}
        \cup UNION {{q \o U16Bytes(start) \o U16Bytes(len) \o PayloadBytes(n) :
                        q \in QPortBytes, start \in FragmentStarts, len \in DeclaredLengths(n)} :
                    n \in PayloadLengths}

\* whole datagrams, and datagrams cut short in their first bytes
Datagrams ==
    LET whole == {h \o b : h \in Headers, b \in Bodies}
        Cut(d, k) == IF k < Len(d) THEN SubSeq(d, 1, k) ELSE d
    IN whole \cup {Cut(d, k) : d \in whole, k \in 0 .. 9}

InitPacket ==
    /\ HuffIdle
    /\ InfoIdle
    /\ datagram \in Datagrams
    /\ kind = NoKind
    /\ packet = NoPacket
    /\ made = NotMade
    /\ ConnectIdle

\* parse_packet(&mut payload)
ParsePacket ==
    /\ packet = NoPacket
    /\ LET r == parse_packet(datagram)
       IN /\ kind' = r.kind
          /\ packet' = r.result
    /\ UNCHANGED <<datagram, made>>
    /\ UNCHANGED notPacketVars

\* PacketSequenceNumber::new(bits), on the bits of the header
NewPacketSequenceNumber ==
    /\ made = NotMade
    /\ Len(datagram) >= SIZE_OF_I32
    /\ made' = [op |-> "PacketSequenceNumber::new",
                bits |-> get_i32_le(datagram),
                result |-> PacketSequenceNumber_new(get_i32_le(datagram))]
    /\ UNCHANGED <<datagram, kind, packet>>
    /\ UNCHANGED notPacketVars

NextPacket == ParsePacket \/ NewPacketSequenceNumber

SpecPacket == InitPacket /\ [][NextPacket]_vars

(***************************************************************************)
(* The claims about packet framing.  What a datagram says is read off its  *)
(* bytes.                                                                  *)
(***************************************************************************)
WasParsedPacket == packet # NoPacket

HasHeader == Len(datagram) >= 4

\* the header is 0xFFFFFFFF
AllOnes == \A i \in 1 .. 4 : datagram[i] = 255

\* the top bit of the header: the top bit of its fourth byte
TopBitSet == datagram[4] >= 128

\* the low 31 bits of the header
Low31Bits ==
    datagram[1] + 256 * datagram[2] + 65536 * datagram[3] + 16777216 * (datagram[4] % 128)

\* the 16-bit number in the two bytes after the first `at` bytes
WireU16(at) == datagram[at + 1] + 256 * datagram[at + 2]

\* the bytes after the first `at` bytes
BytesAfter(at) == SubSeq(datagram, at + 1, Len(datagram))

Failed(variant) == packet.tag = "Err" /\ packet.error.variant = variant

\* C13: header classification. For every 32-bit little-endian header h,
\* PacketKind::parse(h) is Connectionless iff h = 0xFFFFFFFF; otherwise it is
\* Sequenced, is_fragmented() is true iff the top bit of h is set, and number()
\* is the low 31 bits of h.
C13_HeaderKind ==
    WasParsedPacket /\ HasHeader =>
        /\ kind = Connectionless <=> AllOnes
        /\ ~AllOnes =>
              /\ kind.kind = "Sequenced"
              /\ is_fragmented(kind.sequence) <=> TopBitSet
              /\ number(kind.sequence) = Low31Bits

\* the header 0x800000FF is a fragmented sequence with number 255
C13_Witness ==
    /\ WasParsedPacket
    /\ HasHeader
    /\ kind.kind = "Sequenced"
    /\ is_fragmented(kind.sequence)
    /\ number(kind.sequence) = 255

\* C14: parse_packet never panics on an input of at most 1400 bytes: it
\* returns Ok or an InvalidPacketError value; a fragmented datagram whose
\* declared fragment length differs from the number of payload bytes that
\* remain yields an error value.
C14_NoPanic ==
    WasParsedPacket /\ Len(datagram) <= MAX_PACKETLEN => packet.tag \in {"Ok", "Err"}

\* C15: truncated headers. parse_packet returns InvalidSize when the input has
\* fewer than 4 bytes; when a sequenced header is followed by fewer than 2
\* bytes; and, for a fragmented header with a valid qport, when fewer than 2
\* bytes remain for the fragment start or, after a valid fragment start, fewer
\* than 2 bytes remain for the fragment length.
C15_Truncated ==
    WasParsedPacket =>
        /\ Len(datagram) < 4 => Failed("InvalidSize")
        /\ HasHeader /\ ~AllOnes /\ Len(datagram) < 6 => Failed("InvalidSize")
        /\ (/\ Len(datagram) \in {6, 7}
            /\ ~AllOnes /\ TopBitSet
            /\ WireU16(4) # 0) => Failed("InvalidSize")
        /\ (/\ Len(datagram) \in {8, 9}
            /\ ~AllOnes /\ TopBitSet
            /\ WireU16(4) # 0
            /\ WireU16(6) < 1400) => Failed("InvalidSize")

\* a fragmented header, a qport, a fragment start and one more byte
C15_Witness ==
    /\ WasParsedPacket
    /\ Len(datagram) = 9
    /\ ~AllOnes /\ TopBitSet
    /\ WireU16(4) = 666
    /\ WireU16(6) = 1399
    /\ Failed("InvalidSize")

Returned(variant) == packet.tag = "Ok" /\ packet.value.packet = variant

\* C16 as claimed: a connectionless datagram is accepted only if its total
\* length, the 4-byte 0xFFFFFFFF header included, is at most 1400 bytes; when
\* accepted, the payload of the packet is the bytes after the header, unchanged.
C16_ConnectionlessTotal ==
    WasParsedPacket /\ HasHeader /\ AllOnes =>
        /\ packet.tag = "Ok" => Len(datagram) <= 1400
        /\ packet.tag = "Ok" =>
              Returned("Connectionless") /\ packet.value.payload = BytesAfter(4)

\* C16 as amended: the limit is on the bytes after the header. A connectionless
\* datagram is accepted iff at most 1400 bytes follow the 4-byte header (1404 in
\* all) and is an InvalidConnectionlessPacket otherwise; when accepted, the
\* payload of the packet is the bytes after the header, unchanged.
C16_ConnectionlessPayload ==
    WasParsedPacket /\ HasHeader /\ AllOnes =>
        /\ packet.tag = "Ok" <=> Len(datagram) - 4 <= 1400
        /\ packet.tag = "Ok" =>
              Returned("Connectionless") /\ packet.value.payload = BytesAfter(4)
        /\ packet.tag # "Ok" => Failed("InvalidConnectionlessPacket")

\* a datagram of 1404 bytes was accepted, with its 1400 bytes of payload
C16_Witness ==
    /\ WasParsedPacket
    /\ HasHeader /\ AllOnes
    /\ Len(datagram) = 1404
    /\ Returned("Connectionless")
    /\ packet.value.payload = BytesAfter(4)

\* C17: sequenced client packet. For an input of at least 6 bytes whose header
\* has the top bit clear, parse_packet returns Sequenced(sequence = header,
\* qport = the next little-endian u16, payload = all remaining bytes) iff the
\* qport is non-zero and fewer than 1300 bytes remain; a zero qport yields
\* InvalidQPort and, the qport being non-zero, 1300 bytes or more yield
\* InvalidSequencedPacket.
C17_Sequenced ==
    WasParsedPacket /\ Len(datagram) >= 6 /\ ~TopBitSet =>
        /\ packet.tag = "Ok" <=> WireU16(4) # 0 /\ Len(datagram) - 6 < 1300
        /\ packet.tag = "Ok" =>
              /\ Returned("Sequenced")
              /\ packet.value.sequence = Low31Bits
              /\ packet.value.qport = WireU16(4)
              /\ packet.value.payload = BytesAfter(6)
        /\ WireU16(4) = 0 => Failed("InvalidQPort")
        /\ WireU16(4) # 0 /\ Len(datagram) - 6 >= 1300 => Failed("InvalidSequencedPacket")

\* sequence 255 with qport 256 and 1299 bytes of payload
C17_Witness ==
    /\ WasParsedPacket
    /\ Returned("Sequenced")
    /\ packet.value.sequence = 255
    /\ packet.value.qport = 256
    /\ Len(packet.value.payload) = 1299

\* C18: fragmented client packet. For a header with the top bit set, and not
\* 0xFFFFFFFF, followed by a non-zero qport, a fragment start < 1400, a
\* fragment length <= 1300 and exactly that many payload bytes, parse_packet
\* returns Fragmented with sequence = the low 31 bits of the header, that
\* qport, that start, that length and those payload bytes; a start >= 1400
\* yields InvalidFragmentStart and, the start being valid, a length > 1300
\* yields InvalidFragmentLength.
C18_Fragmented ==
    WasParsedPacket /\ Len(datagram) >= 8 /\ TopBitSet /\ ~AllOnes /\ WireU16(4) # 0 =>
        /\ WireU16(6) >= 1400 => Failed("InvalidFragmentStart")
        /\ Len(datagram) >= 10 /\ WireU16(6) < 1400 =>
              /\ WireU16(8) > 1300 => Failed("InvalidFragmentLength")
              /\ WireU16(8) <= 1300 /\ Len(datagram) - 10 = WireU16(8) =>
                    /\ Returned("Fragmented")
                    /\ packet.value.sequence = Low31Bits
                    /\ packet.value.qport = WireU16(4)
                    /\ packet.value.fragment_info = [start |-> WireU16(6), length |-> WireU16(8)]
                    /\ packet.value.payload = BytesAfter(10)

\* a full fragment: start 1399, 1300 bytes, sequence 255
C18_Witness ==
    /\ WasParsedPacket
    /\ Returned("Fragmented")
    /\ packet.value.sequence = 255
    /\ packet.value.fragment_info = [start |-> 1399, length |-> 1300]
    /\ Len(packet.value.payload) = 1300

\* C20: PacketSequenceNumber::new(bits) returns an error iff bits is the
\* connectionless marker 0xFFFFFFFF or has the top bit set, and otherwise a
\* number holding exactly bits; every number() that parsing produces is a value
\* that PacketSequenceNumber::new accepts.
C20_SequenceNumber ==
    /\ made # NotMade =>
          /\ made.result.tag = "Err" <=> AllOnes \/ TopBitSet
          /\ made.result.tag = "Ok" => made.result.value = made.bits /\ made.bits = Low31Bits
    /\ Returned("Sequenced") \/ Returned("Fragmented") =>
          /\ packet.value.sequence \in 0 .. 2147483647
          /\ PacketSequenceNumber_new(packet.value.sequence) = Ok(packet.value.sequence)
    /\ kind.kind = "Sequenced" =>
          PacketSequenceNumber_new(number(kind.sequence)) = Ok(number(kind.sequence))

\* the bits of a fragmented header were turned down, and the packet parsed
\* from it has the number 255
C20_Witness ==
    /\ made # NotMade
    /\ made.result.tag = "Err"
    /\ TopBitSet /\ ~AllOnes
    /\ Returned("Fragmented")
    /\ packet.value.sequence = 255

(***************************************************************************)
(* server.rs tests::fragmentedpacket_new: the outgoing fragment and its    *)
(* length, made from payloads of any length.                               *)
(***************************************************************************)
FragmentPayloadLengths ==
    (0 .. Window)
        \cup ((FRAGMENT_SIZE - Window) .. (FRAGMENT_SIZE + Window))
        \cup ((U16_MAX + 1 - Window) .. (U16_MAX + 1 + Window))
        \cup ((U16_MAX + 1 + FRAGMENT_SIZE - Window) .. (U16_MAX + 1 + FRAGMENT_SIZE + Window))
        \cup ((2 * (U16_MAX + 1) - Window) .. (2 * (U16_MAX + 1) + Window))

\* vec![0; n]
Zeros(n) == [i \in 1 .. n |-> 0]

InitFragment ==
    /\ HuffIdle
    /\ InfoIdle
    /\ PacketIdle
    /\ ConnectIdle

\* FragmentedPacket::new(PacketSequenceNumber::new(42)?, FragmentStart::new(42)?, vec![0; n])
NewFragmentedPacket ==
    /\ \E n \in FragmentPayloadLengths :
          made' = [op |-> "FragmentedPacket::new",
                   len |-> n,
                   result |-> server_FragmentedPacket_new(
                                  PacketSequenceNumber_new(42).value,
                                  FragmentStart_new(42).value,
                                  Zeros(n))]
    /\ UNCHANGED <<datagram, kind, packet>>
    /\ UNCHANGED notPacketVars

\* FragmentLength::try_from(n)
NewFragmentLength ==
    /\ \E n \in FragmentPayloadLengths :
          made' = [op |-> "FragmentLength::try_from",
                   len |-> n,
                   result |-> FragmentLength_try_from(n)]
    /\ UNCHANGED <<datagram, kind, packet>>
    /\ UNCHANGED notPacketVars

NextFragment == NewFragmentedPacket \/ NewFragmentLength

SpecFragment == InitFragment /\ [][NextFragment]_vars

\* C19: FragmentedPacket::new, and FragmentLength::try_from(usize), succeeds
\* iff the payload length is <= 1300, with no 16-bit wrap-around for lengths
\* >= 65536; on success fragment_info().length() is the payload length, and
\* is_last() is true iff that length is strictly less than 1300.
C19_FragmentLength ==
    /\ made.op = "FragmentedPacket::new" =>
          /\ made.result.tag = "Ok" <=> made.len <= 1300
          /\ made.result.tag = "Ok" =>
                /\ usize_from(made.result.value.fragment_info.length) = made.len
                /\ Len(made.result.value.payload) = made.len
                /\ is_last(made.result.value.fragment_info) <=> made.len < 1300
    /\ made.op = "FragmentLength::try_from" =>
          /\ made.result.tag = "Ok" <=> made.len <= 1300
          /\ made.result.tag = "Ok" =>
                /\ usize_from(made.result.value) = made.len
                /\ is_last_fragment(made.result.value) <=> made.len < 1300

\* a payload of 65536 + 1300 bytes, which would wrap to 1300, was turned down,
\* no matter what was made before
C19_Witness ==
    /\ made.op = "FragmentedPacket::new"
    /\ made.len = 65536 + 1300
    /\ made.result.tag = "Err"

(***************************************************************************)
(* ConnectionlessCommand::parse on the first token of a connectionless     *)
(* payload: the five commands in every mix of upper and lower case, and    *)
(* tokens that are no command.                                             *)
(***************************************************************************)
Commands ==
    {GETSTATUS_COMMAND, GETINFO_COMMAND, GETCHALLENGE_COMMAND, CONNECT_COMMAND,
     IPAUTHORIZE_COMMAND}

\* an ASCII letter in the other case, any other byte as it is
OtherCase(byte) ==
    IF byte \in 97 .. 122 THEN byte - 32
    ELSE IF byte \in 65 .. 90 THEN byte + 32
    ELSE byte

\* a word with the letters at the positions of `flipped` in the other case
CaseVariants(word) ==
    {[i \in 1 .. Len(word) |-> IF i \in flipped THEN OtherCase(word[i]) ELSE word[i]] :
        flipped \in SUBSET (1 .. Len(word))}

\* "", "get", "getinfo ", "getinfos", "getinf0", "disconnect", "rcon", "\xFF"
NoCommands ==
    {<<>>, <<103, 101, 116>>, <<103, 101, 116, 105, 110, 102, 111, 32>>, <<103, 101, 116, 105, 110, 102, 111, 115>>, <<103, 101, 116, 105, 110, 102, 48>>, <<100, 105, 115, 99, 111, 110, 110, 101, 99, 116>>, <<114, 99, 111, 110>>, <<255>>}

CommandTokens == (UNION {CaseVariants(c) : c \in Commands}) \cup NoCommands

InitCommand ==
    /\ HuffIdle
    /\ InfoIdle
    /\ PacketIdle
    /\ ConnectIdle

\* ConnectionlessCommand::parse(token)
ParseCommand ==
    /\ made = NotMade
    /\ \E token \in CommandTokens :
          made' = [op |-> "ConnectionlessCommand::parse",
                   bytes |-> token,
                   result |-> ConnectionlessCommand_parse(token)]
    /\ UNCHANGED <<datagram, kind, packet>>
    /\ UNCHANGED notPacketVars

NextCommand == ParseCommand

SpecCommand == InitCommand /\ [][NextCommand]_vars

\* a word with its upper-case letters in lower case
LowerCase(word) ==
    [i \in 1 .. Len(word) |-> IF word[i] \in 65 .. 90 THEN word[i] + 32 ELSE word[i]]

SameIgnoringCase(a, b) == LowerCase(a) = LowerCase(b)

\* C21: ConnectionlessCommand::parse recognises getstatus, getinfo,
\* getchallenge, connect and ipAuthorize whatever the case of their letters
\* (every upper/lower-case variant of a command maps to the same command) and
\* returns ParseCommandError for every other token.
C21_CommandIgnoringCase ==
    made.op = "ConnectionlessCommand::parse" =>
        /\ SameIgnoringCase(made.bytes, GETSTATUS_COMMAND) => made.result = Ok("GetStatus")
        /\ SameIgnoringCase(made.bytes, GETINFO_COMMAND) => made.result = Ok("GetInfo")
        /\ SameIgnoringCase(made.bytes, GETCHALLENGE_COMMAND) => made.result = Ok("GetChallenge")
        /\ SameIgnoringCase(made.bytes, CONNECT_COMMAND) => made.result = Ok("Connect")
        /\ SameIgnoringCase(made.bytes, IPAUTHORIZE_COMMAND) => made.result = Ok("IpAuthorize")
        /\ (\A c \in Commands : ~SameIgnoringCase(made.bytes, c)) =>
              made.result = ParseCommandError

(***************************************************************************)
(* server.rs tests::connectmessage_parse_message: a client's encoder makes *)
(* the Huffman blob of some bytes, a connect payload is put around it, and *)
(* ConnectMessage::parse_packet is called on the payload.  The call takes  *)
(* one step up to its call of Huffman::decode, decode takes its steps, and *)
(* the call takes one more step from there to its end.                     *)
(***************************************************************************)
\* v times the letter 'a'
Letters(v) == [i \in 1 .. v |-> 97]

\* info strings: none, \a\b, \a\b\b\a, \a\b\a\a, \a, a\b, \a\\b, \a\b", \a\b"a,
\* \b\a"\a\b, and \a\aa..a of INFO_LIMIT bytes and of one byte more
ConnectInfos ==
    {<<>>,
     <<92, 97, 92, 98>>,
     <<92, 97, 92, 98, 92, 98, 92, 97>>,
     <<92, 97, 92, 98, 92, 97, 92, 97>>,
     <<92, 97>>,
     <<97, 92, 98>>,
     <<92, 97, 92, 92, 98>>,
     <<92, 97, 92, 98, 34>>,
     <<92, 97, 92, 98, 34, 97>>,
     <<92, 98, 92, 97, 34, 92, 97, 92, 98>>,
     <<92, 97, 92>> \o Letters(INFO_LIMIT - 3),
     <<92, 97, 92>> \o Letters(INFO_LIMIT - 2)}

\* the bytes a client encodes: '"' + I + '"'
Quoted(I) == QUOTE \o I \o QUOTE

\* what is encoded: an info string in its quotes, and, of the short ones, also
\* without a quote or with a byte after the quotes
ConnectPlaintexts ==
    {Quoted(I) : I \in ConnectInfos}
        \cup UNION {{I, QUOTE \o I, I \o QUOTE, Quoted(I) \o <<97>>} :
                       I \in {J \in ConnectInfos : Len(J) <= 5}}

InitConnect ==
    /\ \E bytes \in ConnectPlaintexts : EncodeCall(bytes)
    /\ DecoderIdle
    /\ InfoIdle
    /\ PacketIdle
    /\ ConnectIdle

\* "connect" + space + u16le(length) + blob
ConnectPayload(declared, blob) == CONNECT_COMMAND \o SPACE \o U16Bytes(declared) \o blob

\* the payloads made of a blob of n decoded bytes: the right one; with a length
\* one more or less; without the space, with another command, in upper case;
\* cut after "connec", "connect ", the first byte of the length, or before the
\* last byte of the blob
ConnectPayloads(n, blob) ==
    LET right == ConnectPayload(n, blob)
        Cut(k) == IF k < Len(right) THEN SubSeq(right, 1, k) ELSE right
    IN IF n > 16 THEN {right}
       ELSE {right, ConnectPayload(n + 1, blob)}
               \cup (IF n > 0 THEN {ConnectPayload(n - 1, blob)} ELSE {})
               \cup {CONNECT_COMMAND \o U16Bytes(n) \o blob,
                     GETINFO_COMMAND \o SPACE \o U16Bytes(n) \o blob,
                     <<67, 79, 78, 78, 69, 67, 84>> \o SPACE \o U16Bytes(n) \o blob}
               \cup {Cut(6), Cut(8), Cut(9), Cut(Len(right) - 1)}

\* the client sends what its encoder made
SendConnect ==
    /\ epc = "returned"
    /\ cpc = "idle"
    /\ request' \in ConnectPayloads(Len(plain), as_raw_slice(bits))
    /\ cpc' = "sent"
    /\ UNCHANGED connect_message
    /\ UNCHANGED huffVars
    /\ UNCHANGED notConnectVars

\* ConnectMessage::parse_packet and parse_connect_payload, lines 296-319: up to
\* the call of Huffman::decode on a fresh coder
ParseConnectCall ==
    /\ cpc = "sent"
    /\ LET recognized == recognize_connect_payload(request)
           blob == IF recognized.ok THEN parse_connect_blob(recognized.rest) ELSE Backtrack
       IN IF ~blob.ok
          THEN /\ connect_message' = ParseConnectMessageError
               /\ cpc' = "returned"
               /\ UNCHANGED <<decoder, stream, length, cursor, node_index, decoded, written, dpc>>
          ELSE /\ DecodeCall(adaptive, as_bitslice(blob.bytes), blob.len, <<>>)
               /\ cpc' = "decode"
               /\ UNCHANGED connect_message
    /\ UNCHANGED <<encoder, plain, consumed, bits, epc>>
    /\ UNCHANGED request
    /\ UNCHANGED notConnectVars

\* parse_connect_payload, lines 319-327, and parse_packet, lines 346-347: from
\* the end of Huffman::decode, which has returned or has panicked
ParseConnectReturn ==
    /\ cpc = "decode"
    /\ dpc \in {"returned", "panicked"}
    /\ connect_message' =
          IF dpc = "panicked"
          THEN [tag |-> "panicked", message |-> "Huffman::decode"]
          ELSE parse_connect_decoded(decoded)
    /\ cpc' = IF connect_message'.tag = "panicked" THEN "panicked" ELSE "returned"
    /\ UNCHANGED request
    /\ UNCHANGED huffVars
    /\ UNCHANGED notConnectVars

NextConnect ==
    \/ EncodeStep
    \/ EncodeReturn
    \/ SendConnect
    \/ ParseConnectCall
    \/ DecodeStep
    \/ DecodeReturn
    \/ ParseConnectReturn

SpecConnect == InitConnect /\ [][NextConnect]_vars

(***************************************************************************)
(* The claims about the connect message.  What a payload says is read off  *)
(* its bytes, and what was decoded off the decoder's buffer.               *)
(***************************************************************************)
ConnectDone == cpc \in {"returned", "panicked"}

StartsWith(bytes, prefix) ==
    Len(bytes) >= Len(prefix) /\ SubSeq(bytes, 1, Len(prefix)) = prefix

\* decode was called and got all the bytes it was asked for
Decoded == dpc = "returned"

\* decode was called and the blob ran out of bits
RanOutOfBits == dpc = "panicked" /\ cursor = Len(stream)

\* the first byte and the last byte are quotes, and they are two bytes
InQuotes(bytes) ==
    Len(bytes) >= 2 /\ bytes[1] = QUOTE[1] /\ bytes[Len(bytes)] = QUOTE[1]

\* what is between the first byte and the last byte
Interior(bytes) == SubSeq(bytes, 2, Len(bytes) - 1)

\* C22: ConnectMessage::parse_packet returns an error value and never panics,
\* whatever the payload: one that does not start with "connect", one without
\* the space, one whose Huffman blob runs out of bits before the declared
\* length is decoded, one whose decoded bytes are not in quotes, one whose
\* decoded info string the info-map parser rejects.
C22_ConnectNoPanic ==
    /\ cpc # "panicked"
    /\ ConnectDone =>
          /\ connect_message.tag \in {"Ok", "Err"}
          /\ ~StartsWith(request, CONNECT_COMMAND) => connect_message.tag = "Err"
          /\ ~StartsWith(request, CONNECT_COMMAND \o SPACE) => connect_message.tag = "Err"
          /\ RanOutOfBits => connect_message.tag = "Err"
          /\ Decoded /\ ~InQuotes(decoded) => connect_message.tag = "Err"
          /\ (/\ Decoded
              /\ InQuotes(decoded)
              /\ InfoMap_parse(INFO_LIMIT, Interior(decoded)).tag = "Err") =>
                connect_message.tag = "Err"

\* the payload is "connect", a space, the length of the quoted info string and
\* the Huffman blob of the quoted info string
WellSent ==
    /\ InQuotes(plain)
    /\ request = ConnectPayload(Len(plain), as_raw_slice(bits))

\* C23: end to end. For every info string I that InfoMap::parse accepts under
\* the limit of 1024 bytes, the payload "connect" + space + u16le(|I| + 2) +
\* HuffmanEncode('"' + I + '"') parses to a ConnectMessage whose user_info has
\* the entries of InfoMap::parse(I), in their order.
C23_EndToEnd ==
    (/\ ConnectDone
     /\ WellSent
     /\ InfoMap_parse(INFO_LIMIT, Interior(plain)).tag = "Ok") =>
        /\ connect_message.tag = "Ok"
        /\ connect_message.value.user_info = InfoMap_parse(INFO_LIMIT, Interior(plain)).map

\* C24: quoting. The decoded bytes are accepted only if their first and their
\* last byte are both '"', and the info string that is parsed is all that is
\* between that first and that last byte; decoded bytes that go on after the
\* closing quote are rejected.
C24_Quoting ==
    ConnectDone /\ Decoded /\ connect_message.tag = "Ok" =>
        /\ InQuotes(decoded)
        /\ InfoMap_parse(INFO_LIMIT, Interior(decoded)).tag = "Ok"
        /\ connect_message.value.user_info = InfoMap_parse(INFO_LIMIT, Interior(decoded)).map

(***************************************************************************)
(* tests::qstr_from_bytes, qstring_from_bytes, infostr_from_bytes and      *)
(* infostring_from_bytes: the four from_bytes on any short byte string.    *)
(***************************************************************************)
\* from_bytes is handed every string of at most MaxBytes of the bytes NUL,
\* backslash, 'a' and 'b'
MaxBytes == 4

InitFromBytes ==
    /\ HuffIdle
    /\ InfoIdle
    /\ PacketIdle
    /\ ConnectIdle

FromBytes(op, from_bytes(_)) ==
    /\ made = NotMade
    /\ \E bytes \in SeqsUpTo(InfoBytes, MaxBytes) :
          made' = [op |-> op, bytes |-> bytes, result |-> from_bytes(bytes)]
    /\ UNCHANGED <<datagram, kind, packet>>
    /\ UNCHANGED notPacketVars

QStrFromBytes == FromBytes("QStr::from_bytes", QStr_from_bytes)

QStringFromBytes == FromBytes("QString::from_bytes", QString_from_bytes)

InfoStrFromBytes == FromBytes("InfoStr::from_bytes", InfoStr_from_bytes)

InfoStringFromBytes == FromBytes("InfoString::from_bytes", InfoString_from_bytes)

NextFromBytes ==
    \/ QStrFromBytes
    \/ QStringFromBytes
    \/ InfoStrFromBytes
    \/ InfoStringFromBytes

SpecFromBytes == InitFromBytes /\ [][NextFromBytes]_vars

\* the positions, counted from 0, that hold one of the bytes
PositionsOf(unwanted, bytes) == {i \in 0 .. (Len(bytes) - 1) : bytes[i + 1] \in unwanted}

\* from_bytes succeeded iff none of the bytes is in the string, and failed with
\* the position of one
Validated(unwanted) ==
    /\ made.result.ok <=> PositionsOf(unwanted, made.bytes) = {}
    /\ made.result.ok => made.result.bytes = made.bytes
    /\ ~made.result.ok => made.result.index \in PositionsOf(unwanted, made.bytes)

\* C25: QStr::from_bytes and QString::from_bytes succeed iff the input has no
\* NUL byte at any position, the last included; InfoStr::from_bytes and
\* InfoString::from_bytes succeed iff it has neither NUL nor backslash at any
\* position; the error carries the index of an offending byte.
C25_FromBytes ==
    /\ made.op \in {"QStr::from_bytes", "QString::from_bytes"} => Validated({NUL})
    /\ made.op \in {"InfoStr::from_bytes", "InfoString::from_bytes"} =>
          Validated({NUL, BACKSLASH})

\* an info string was turned down for the NUL that is its last byte
C25_Witness ==
    /\ made.op = "InfoStr::from_bytes"
    /\ made.bytes = <<97, 98, 97, NUL>>
    /\ ~made.result.ok
    /\ made.result.index = 3

(***************************************************************************)
(* client.rs tests::parse_server_packet_*: one call of parse_server_packet *)
(* on a datagram from a server, which has no qport.                        *)
(***************************************************************************)
\* what follows the header: payload bytes; a fragment start, a fragment
\* length and payload bytes
ServerBodies ==
    {PayloadBytes(n) : n \in PayloadLengths}
        \cup UNION {{U16Bytes(start) \o U16Bytes(len) \o PayloadBytes(n) :
                        start \in FragmentStarts, len \in DeclaredLengths(n)} :
                    n \in PayloadLengths}

\* whole datagrams, and datagrams cut short in their first bytes
ServerDatagrams ==
    LET whole == {h \o b : h \in Headers, b \in ServerBodies}
        Cut(d, k) == IF k < Len(d) THEN SubSeq(d, 1, k) ELSE d
    IN whole \cup {Cut(d, k) : d \in whole, k \in 0 .. 7}

InitServerPacket ==
    /\ HuffIdle
    /\ InfoIdle
    /\ datagram \in ServerDatagrams
    /\ kind = NoKind
    /\ packet = NoPacket
    /\ made = NotMade
    /\ ConnectIdle

\* parse_server_packet(&mut payload)
ParseServerPacket ==
    /\ packet = NoPacket
    /\ LET r == parse_server_packet(datagram)
       IN /\ kind' = r.kind
          /\ packet' = r.result
    /\ UNCHANGED <<datagram, made>>
    /\ UNCHANGED notPacketVars

NextServerPacket == ParseServerPacket

SpecServerPacket == InitServerPacket /\ [][NextServerPacket]_vars

\* C26: parse_server_packet returns a structured error and does not panic
\* when the input is shorter than the 4-byte header, or when a fragmented
\* header is followed by fewer than 4 bytes of fragment start and length.
C26_ServerTruncated ==
    WasParsedPacket =>
        /\ Len(datagram) < 4 => packet.tag = "Err"
        /\ HasHeader /\ ~AllOnes /\ TopBitSet /\ Len(datagram) < 8 => packet.tag = "Err"

(***************************************************************************)
(* tests::infomap_toowned: a borrowed map is built by calls of try_insert  *)
(* and to_owned is called on it.                                           *)
(***************************************************************************)
\* borrowed.try_insert(key, value)?
BorrowedTryInsert ==
    /\ made = NotMade
    /\ TryInsert

\* borrowed.to_owned()
ToOwned ==
    /\ made = NotMade
    /\ made' = [op |-> "InfoMap::to_owned", result |-> InfoMap_to_owned(MapLimit, info)]
    /\ UNCHANGED <<datagram, kind, packet>>
    /\ UNCHANGED <<huffVars, infoVars, connectVars>>

NextInfoOwned == BorrowedTryInsert \/ ToOwned

SpecInfoOwned == InitInfoMap /\ [][NextInfoOwned]_vars

WasOwned == made.op = "InfoMap::to_owned"

\* C27: InfoMap::to_owned on a borrowed map built by successful try_insert
\* calls under limit L never panics (its own try_insert under the same L
\* never returns LimitError), and the owned map has the same number of
\* entries, with the same keys and values in the same order.
C27_ToOwned ==
    WasOwned =>
        /\ made.result.tag = "Ok"
        /\ InfoMap_len(made.result.value) = InfoMap_len(info)
        /\ \A i \in 1 .. Len(info) :
              /\ made.result.value[i].key = info[i].key
              /\ made.result.value[i].value = info[i].value

\* to_owned was called on a map of three entries that is full to the byte,
\* after a last try_insert that was turned down
C27_Witness ==
    /\ WasOwned
    /\ Len(info) = 3
    /\ SerializedSize(info) = MapLimit
    /\ call.op = "try_insert" /\ call.result.tag = "Err"
    /\ made.result = Ok(info)

(***************************************************************************)
(* Huffman::insert: any sequence of calls on a fresh coder, as the loops   *)
(* of encode and decode make them, one for every byte.                     *)
(***************************************************************************)
InitInsert ==
    /\ HuffIdle
    /\ InfoIdle
    /\ PacketIdle
    /\ ConnectIdle

\* self.insert(symbol); plain holds the symbols inserted so far
Insert ==
    /\ encoder.fault = "none"
    /\ consumed < MaxInserts
    /\ \E symbol \in InputSymbols :
          /\ encoder' = insert(encoder, symbol)
          /\ plain' = Append(plain, symbol)
    /\ consumed' = consumed + 1
    /\ UNCHANGED <<bits, epc>>
    /\ UNCHANGED <<decoder, stream, length, cursor, node_index, decoded, written, dpc>>
    /\ UNCHANGED notHuffVars

NextInsert == Insert

SpecInsert == InitInsert /\ [][NextInsert]_vars

\* the populated slots of the arena
Slots(h) == {i \in DOMAIN h.tree : InArena(i)}

InternalSlots(h) == {i \in Slots(h) : h.tree[i].kind = "Internal"}

NytSlots(h) == {i \in Slots(h) : h.tree[i].kind = "NotYetTransmitted"}

LeafSlot(h, symbol) == h.symbol_index[symbol]

\* C28: the sibling property. After every insert, from the initial state and
\* for any sequence of symbols, weight(i) >= weight(j) for all populated
\* arena indices i < j.
C28_Sibling ==
    \A i \in Slots(encoder), j \in Slots(encoder) :
        i < j => weight(encoder.tree[i]) >= weight(encoder.tree[j])

\* "abb": the second b made the leaf of b heavier than the leaf of a in the
\* lower slot, and insert swapped the two leaves
C28_Witness ==
    /\ plain = <<97, 98, 98>>
    /\ consumed = 3
    /\ LeafSlot(encoder, 98) < LeafSlot(encoder, 97)
    /\ weight(encoder.tree[LeafSlot(encoder, 98)]) = 2
    /\ weight(encoder.tree[LeafSlot(encoder, 97)]) = 1

\* C29: weight sums. After every insert, the weight of every populated
\* Internal node is the sum of the weights of its left and right children.
C29_WeightSums ==
    \A i \in InternalSlots(encoder) :
        LET n == encoder.tree[i] IN
        /\ Populated(encoder, n.left)
        /\ Populated(encoder, n.right)
        /\ weight(n) = weight(encoder.tree[n.left]) + weight(encoder.tree[n.right])

\* three symbols were inserted, one of them again and again: three Internal
\* nodes, the root with the weight of all inserts, and a leaf that was swapped
\* with an Internal node, right under the root
C29_Witness ==
    /\ consumed >= 5
    /\ Cardinality(InternalSlots(encoder)) = 3
    /\ weight(encoder.tree[ROOT]) = consumed
    /\ \E i \in Slots(encoder) :
          /\ encoder.tree[i].kind = "Leaf"
          /\ parent(encoder.tree[i]) = ROOT
          /\ weight(encoder.tree[i]) >= 3

\* C30: exactly one NYT. In the initial state and after every insert, exactly
\* one populated arena slot holds a NotYetTransmitted node, and the cursor
\* nyt is the index of that slot.
C30_OneNyt ==
    /\ Cardinality(NytSlots(encoder)) = 1
    /\ encoder.nyt \in NytSlots(encoder)

\* "abccc": the NYT node has moved three times, to the last slot in use, and
\* the leaf of c, made last, was swapped up to slot 1 afterwards
C30_Witness ==
    /\ plain = <<97, 98, 99, 99, 99>>
    /\ consumed = 5
    /\ encoder.nyt = 6
    /\ encoder.nyt = encoder.next - 1
    /\ LeafSlot(encoder, 99) = 1

\* the symbols inserted so far
Inserted == {plain[k] : k \in 1 .. Len(plain)}

LeafSlots(h) == {i \in Slots(h) : h.tree[i].kind = "Leaf"}

\* C31: symbol_index consistency. After every insert, symbol_index[s] is set
\* exactly for the symbols s inserted so far, the slot it names holds a Leaf
\* whose symbol is s, and every Leaf L of the arena sits at
\* symbol_index[L.symbol].
C31_SymbolIndex ==
    /\ DOMAIN encoder.symbol_index = Inserted
    /\ \A s \in DOMAIN encoder.symbol_index :
          /\ LeafSlot(encoder, s) \in LeafSlots(encoder)
          /\ encoder.tree[LeafSlot(encoder, s)].symbol = s
    /\ \A i \in LeafSlots(encoder) :
          /\ encoder.tree[i].symbol \in DOMAIN encoder.symbol_index
          /\ LeafSlot(encoder, encoder.tree[i].symbol) = i

\* "abcc": the leaf of a was swapped with an Internal node and then with the
\* leaf of c, so that two leaves sit in slots they were not made in
C31_Witness ==
    /\ plain = <<97, 98, 99, 99>>
    /\ consumed = 4
    /\ LeafSlot(encoder, 99) = 2
    /\ LeafSlot(encoder, 98) = 3
    /\ LeafSlot(encoder, 97) = 5

\* whether slot i is at most `steps` parent links below the root
RECURSIVE UnderRoot(_, _, _)
UnderRoot(h, i, steps) ==
    \/ i = ROOT
    \/ /\ steps > 0
       /\ Populated(h, i)
       /\ UnderRoot(h, parent(h.tree[i]), steps - 1)

\* C32: parent/child consistency. After every insert, the two children of
\* every Internal at index p are different nodes that both have parent p;
\* the parent of every node but the root is an Internal that lists the node
\* as its left or right child; only the root, index 0, has no parent; and the
\* populated slots form one tree rooted at index 0.
C32_ParentChild ==
    /\ \A p \in InternalSlots(encoder) :
          LET n == encoder.tree[p] IN
          /\ n.left # n.right
          /\ Populated(encoder, n.left) /\ parent(encoder.tree[n.left]) = p
          /\ Populated(encoder, n.right) /\ parent(encoder.tree[n.right]) = p
    /\ \A i \in Slots(encoder) \ {ROOT} :
          LET p == parent(encoder.tree[i]) IN
          /\ p \in InternalSlots(encoder)
          /\ encoder.tree[p].left = i \/ encoder.tree[p].right = i
    /\ \A i \in Slots(encoder) : parent(encoder.tree[i]) = NoIndex <=> i = ROOT
    /\ ROOT \in Slots(encoder)
    /\ \A i \in Slots(encoder) : UnderRoot(encoder, i, Cardinality(Slots(encoder)))

\* "abc": the third insert swapped the leaf of a with the Internal node beside
\* it, whose two children were pointed at its new slot
C32_Witness ==
    /\ plain = <<97, 98, 99>>
    /\ consumed = 3
    /\ encoder.tree[1].kind = "Internal"
    /\ encoder.tree[2].kind = "Leaf"
    /\ parent(encoder.tree[encoder.tree[1].left]) = 1
    /\ parent(encoder.tree[encoder.tree[1].right]) = 1

\* the tree arena, symbol_index, nyt and next of two coders are the same
SameCoder(g, h) ==
    /\ g.tree = h.tree
    /\ g.symbol_index = h.symbol_index
    /\ g.nyt = h.nyt
    /\ g.next = h.next

\* C33: encoder and decoder in lock-step. When a fresh encoder has encoded B
\* and a fresh decoder decodes the bits for |B| bytes, then after each of the
\* symbols the decoder's tree arena, symbol_index, nyt and next are those the
\* encoder had after as many symbols, up to the last of the |B|.
C33_LockStep ==
    /\ dpc # "idle" =>
          /\ dpc # "panicked"
          /\ written <= Len(plain)
          /\ SameCoder(decoder, CoderAfter(SubSeq(plain, 1, written)))
    /\ dpc = "returned" =>
          /\ written = Len(plain)
          /\ SameCoder(decoder, encoder)

\* "abbc" was encoded and decoded: both coders have swapped the leaves of a
\* and b and hold the same tree of seven nodes
C33_Witness ==
    /\ dpc = "returned"
    /\ plain = <<97, 98, 98, 99>>
    /\ written = 4
    /\ decoder.next = 7
    /\ LeafSlot(decoder, 98) < LeafSlot(decoder, 97)
    /\ decoder.tree = encoder.tree

\* a step of insert, and the symbol it is called with
InsertStep == consumed' = consumed + 1

Symbol == plain'[consumed']

NewSymbolStep == InsertStep /\ Symbol \notin DOMAIN encoder.symbol_index

SeenSymbolStep == InsertStep /\ Symbol \in DOMAIN encoder.symbol_index

\* C34 as claimed: when insert is called for an unseen symbol with cursors
\* nyt = n and next = m, slot n becomes an Internal that inherits the old
\* NYT's parent link, the new NYT is placed at index m and the new Leaf at
\* index m + 1, symbol_index[symbol] is the new Leaf's index and nyt is the
\* new NYT's index.
C34_NytAtNext ==
    [][NewSymbolStep =>
        LET n == encoder.nyt
            m == encoder.next
            laid == new_nodes(encoder, Symbol)
        IN /\ laid.tree[n].kind = "Internal"
           /\ parent(laid.tree[n]) = parent(encoder.tree[n])
           /\ laid.tree[m] = NotYetTransmitted(n)
           /\ laid.tree[m + 1] = Leaf(n, 1, Symbol)
           /\ laid.symbol_index[Symbol] = m + 1
           /\ laid.nyt = m]_vars

\* C34: the layout of a new symbol. When insert is called for an unseen symbol
\* with cursors nyt = n and next = m, slot n becomes an Internal of weight 1
\* that inherits the old NYT's parent link, with the new NYT as left and the
\* new Leaf as right child; the new Leaf is placed at index m and the new NYT
\* at index m + 1; symbol_index[symbol] is m and nyt is m + 1. The promotion
\* loop that follows leaves the two new slots, the cursor and the entry alone.
C34_Layout ==
    [][NewSymbolStep =>
        LET n == encoder.nyt
            m == encoder.next
            laid == new_nodes(encoder, Symbol)
        IN /\ laid.tree[n] = Internal(parent(encoder.tree[n]), m + 1, m, 1)
           /\ laid.tree[m] = Leaf(n, 1, Symbol)
           /\ laid.tree[m + 1] = NotYetTransmitted(n)
           /\ laid.symbol_index[Symbol] = m
           /\ laid.nyt = m + 1
           /\ encoder'.tree[n].kind = "Internal"
           /\ encoder'.tree[n].left = m + 1 /\ encoder'.tree[n].right = m
           /\ encoder'.tree[m] = Leaf(n, 1, Symbol)
           /\ encoder'.tree[m + 1] = NotYetTransmitted(n)
           /\ encoder'.symbol_index[Symbol] = m
           /\ encoder'.nyt = m + 1]_vars

\* "abc": c was unseen with nyt = 4 and next = 5; slot 4 is an Internal over
\* the leaf of c in slot 5 and the NYT in slot 6, and the promotion loop has
\* moved its parent from slot 2 to slot 1
C34_Witness ==
    /\ plain = <<97, 98, 99>>
    /\ consumed = 3
    /\ encoder.tree[4] = Internal(1, 6, 5, 1)
    /\ encoder.tree[5] = Leaf(4, 1, 99)
    /\ encoder.tree[6] = NotYetTransmitted(4)
    /\ encoder.nyt = 6
    /\ LeafSlot(encoder, 99) = 5

\* C35: slot allocation. An insert of an unseen symbol increases next by
\* exactly 2 and populates exactly two slots that were empty; an insert of a
\* symbol already seen leaves next, nyt and the set of populated slots as they
\* were. Hence after d distinct symbols next = 1 + 2d.
C35_Allocation ==
    [][InsertStep =>
        /\ NewSymbolStep =>
              /\ encoder'.next = encoder.next + 2
              /\ Slots(encoder) \subseteq Slots(encoder')
              /\ Cardinality(Slots(encoder') \ Slots(encoder)) = 2
        /\ SeenSymbolStep =>
              /\ encoder'.next = encoder.next
              /\ encoder'.nyt = encoder.nyt
              /\ Slots(encoder') = Slots(encoder)
        /\ encoder.next = 1 + 2 * Cardinality(Inserted)
        /\ encoder'.next = 1 + 2 * Cardinality(Inserted')]_vars

\* "abaa": two unseen symbols took four slots, the two repeats none
C35_Witness ==
    /\ plain = <<97, 98, 97, 97>>
    /\ consumed = 4
    /\ encoder.next = 5
    /\ Slots(encoder) = 0 .. 4
    /\ encoder.nyt = 4

\* C36: weights. In every state reachable by inserts the NYT node has weight
\* 0 and every Leaf and Internal has a weight of 1 or more; an insert never
\* decreases the weight stored at any arena slot, and it increases the weight
\* of the leaf of the inserted symbol by exactly 1 when the symbol was already
\* present.
C36_Weights ==
    [][InsertStep =>
        /\ \A i \in NytSlots(encoder') : weight(encoder'.tree[i]) = 0
        /\ \A i \in Slots(encoder') \ NytSlots(encoder') : weight(encoder'.tree[i]) >= 1
        /\ \A i \in Slots(encoder) :
              /\ i \in Slots(encoder')
              /\ weight(encoder'.tree[i]) >= weight(encoder.tree[i])
        /\ SeenSymbolStep =>
              weight(encoder'.tree[LeafSlot(encoder', Symbol)])
                 = weight(encoder.tree[LeafSlot(encoder, Symbol)]) + 1]_vars

\* "abcbb": the leaf of b has weight 3 after two repeats, and has moved from
\* slot 3 up to slot 1 on the way
C36_Witness ==
    /\ plain = <<97, 98, 99, 98, 98>>
    /\ consumed = 5
    /\ weight(encoder.tree[LeafSlot(encoder, 98)]) = 3
    /\ LeafSlot(encoder, 98) = 1
    /\ weight(encoder.tree[encoder.nyt]) = 0

\* the passes of the promotion loop that insert(symbol) makes on the coder h
PassesOfInsert(h, symbol) ==
    IF symbol \in DOMAIN h.symbol_index
    THEN loop_passes(h, LeafSlot(h, symbol))
    ELSE loop_passes(new_nodes(h, symbol), parent(h.tree[h.nyt]))

\* C37: the assertions of the tree update. In every state reachable by
\* inserts, short of arena overflow, the promotion loop swaps a node with its
\* block leader only when the leader is neither the node nor the node's
\* parent; swap_nodes is never called with the root or the NYT node (its
\* parent().unwrap() and unreachable!() arms do not fire); increase_weight is
\* never applied to the NYT node; and emit never reaches an unreachable!()
\* arm.
C37_Assertions ==
    [][InsertStep =>
        /\ \A k \in DOMAIN PassesOfInsert(encoder, Symbol) :
              LET c == PassesOfInsert(encoder, Symbol)[k] IN
              /\ c.swap =>
                    /\ c.leader # c.node
                    /\ c.leader # c.node_parent
                    /\ c.node # ROOT /\ c.leader # ROOT
                    /\ c.leader_kind # "NotYetTransmitted"
              /\ c.node_kind # "NotYetTransmitted"
        /\ encoder'.fault = "none"
        /\ \A s \in InputSymbols : ~encode_bits(encoder', s).fault]_vars

\* "abcc": the second c made insert swap the leaf of c with the leaf of a,
\* its block leader two levels up, and leave the root where it was
C37_Witness ==
    /\ plain = <<97, 98, 99, 99>>
    /\ consumed = 4
    /\ encoder.fault = "none"
    /\ LET passes == PassesOfInsert(CoderAfter(<<97, 98, 99>>), 99) IN
       /\ Len(passes) = 2
       /\ passes[1].swap /\ passes[1].node = 5 /\ passes[1].leader = 2
       /\ passes[1].node_parent = 4
       /\ ~passes[2].swap /\ passes[2].node = ROOT
    /\ encode_bits(encoder, 99).bits = <<0>>

\* C38: insert terminates. In every reachable state the parent of every node
\* but the root has a strictly smaller arena index than the node, and the NYT
\* node has the highest populated index, next - 1; so the promotion walk of
\* insert visits strictly decreasing indices and ends at the root after
\* finitely many steps.
C38_Terminates ==
    [][InsertStep =>
        /\ \A i \in Slots(encoder') \ {ROOT} : parent(encoder'.tree[i]) < i
        /\ \A i \in Slots(encoder) \ {ROOT} : parent(encoder.tree[i]) < i
        /\ encoder'.nyt = encoder'.next - 1 /\ encoder.nyt = encoder.next - 1
        /\ \A i \in Slots(encoder') : i <= encoder'.nyt
        /\ \A i \in Slots(encoder) : i <= encoder.nyt
        /\ LET passes == PassesOfInsert(encoder, Symbol) IN
           /\ \A k \in 1 .. (Len(passes) - 1) :
                 /\ passes[k + 1].node < passes[k].moved
                 /\ passes[k + 1].moved < passes[k].moved
           /\ \A k \in DOMAIN passes : passes[k].moved <= passes[k].node
           /\ passes # <<>> => passes[Len(passes)].moved = ROOT
           /\ Len(passes) <= Cardinality(Slots(encoder'))]_vars

\* the last insert walked from a leaf through a swap and up to the root in
\* three passes or more
C38_Witness ==
    /\ consumed >= 1
    /\ consumed = Len(plain)
    /\ LET passes == PassesOfInsert(CoderAfter(SubSeq(plain, 1, consumed - 1)),
                                    plain[consumed]) IN
       /\ Len(passes) >= 3
       /\ passes[1].node_kind = "Leaf"
       /\ passes[Len(passes)].moved = ROOT
       /\ \E k \in DOMAIN passes : passes[k].swap

\* how many times symbol s was inserted
TimesInserted(s) == Cardinality({k \in 1 .. Len(plain) : plain[k] = s})

\* the sum of the weights of the nodes in the slots S
RECURSIVE SumOfWeights(_, _)
SumOfWeights(h, S) ==
    IF S = {} THEN 0
    ELSE LET i == CHOOSE i \in S : TRUE
         IN weight(h.tree[i]) + SumOfWeights(h, S \ {i})

\* C39: the root weight counts the symbols. After n >= 1 inserts, of any
\* symbols, repeated or new, the root at index 0 is an Internal whose weight
\* is exactly n, which is also the sum of all Leaf weights; the weight of each
\* Leaf is the number of times its symbol was inserted.
C39_RootWeight ==
    consumed >= 1 =>
        /\ Populated(encoder, ROOT)
        /\ encoder.tree[ROOT].kind = "Internal"
        /\ weight(encoder.tree[ROOT]) = consumed
        /\ SumOfWeights(encoder, LeafSlots(encoder)) = consumed
        /\ \A i \in LeafSlots(encoder) :
              weight(encoder.tree[i]) = TimesInserted(encoder.tree[i].symbol)

\* "abaca": five inserts of three symbols, a three times
C39_Witness ==
    /\ plain = <<97, 98, 97, 99, 97>>
    /\ consumed = 5
    /\ weight(encoder.tree[ROOT]) = 5
    /\ weight(encoder.tree[LeafSlot(encoder, 97)]) = 3
    /\ weight(encoder.tree[LeafSlot(encoder, 98)]) = 1
    /\ weight(encoder.tree[LeafSlot(encoder, 99)]) = 1

(***************************************************************************)
(* tests::packetsequence_new_with_number_and_fragment: a sequence header   *)
(* is built from a valid number and a flag, and read back by               *)
(* PacketKind::parse.                                                      *)
(***************************************************************************)
\* the numbers that PacketSequenceNumber::new accepts, among the lowest and
\* the highest of 31 bits, the connectionless marker and numbers with the
\* fragment bit
SequenceNumbers ==
    {b \in (0 .. Span) \cup {2147483647 - k : k \in 0 .. Span}
              \cup {CONNECTIONLESS_SEQUENCE, FRAGMENT_BIT, BitOr(42, FRAGMENT_BIT)} :
        PacketSequenceNumber_new(b).tag = "Ok"}

\* PacketSequence::new_with_number_and_fragment(PacketSequenceNumber::new(b)?, fragmented)
NewWithNumberAndFragment ==
    /\ made = NotMade
    /\ \E b \in SequenceNumbers, fragmented \in BOOLEAN :
          made' = [op |-> "PacketSequence::new_with_number_and_fragment",
                   number |-> PacketSequenceNumber_new(b).value,
                   fragmented |-> fragmented,
                   result |-> PacketSequence_new_with_number_and_fragment(
                                  PacketSequenceNumber_new(b).value, fragmented)]
    /\ UNCHANGED <<datagram, kind, packet>>
    /\ UNCHANGED notPacketVars

\* PacketKind::parse of the header that was built
ParseHeader ==
    /\ made.op = "PacketSequence::new_with_number_and_fragment"
    /\ kind = NoKind
    /\ kind' = PacketKind_parse(made.result)
    /\ UNCHANGED <<datagram, packet, made>>
    /\ UNCHANGED notPacketVars

NextSequence == NewWithNumberAndFragment \/ ParseHeader

SpecSequence == InitInfoMap /\ [][NextSequence]_vars

\* C40: the sequence header round trip. For every valid PacketSequenceNumber
\* n and every flag f, the header built by
\* PacketSequence::new_with_number_and_fragment(n, f) is classified by
\* PacketKind::parse as Sequenced with number() = n and is_fragmented() = f:
\* no valid pair of number and flag collides with the connectionless marker
\* 0xFFFFFFFF.
C40_HeaderRoundTrip ==
    made.op = "PacketSequence::new_with_number_and_fragment" /\ kind # NoKind =>
        /\ kind.kind = "Sequenced"
        /\ number(kind.sequence) = made.number
        /\ is_fragmented(kind.sequence) = made.fragmented

====
